---- MODULE Spec2Model ----
(***************************************************************************)
(* A model of aPyNBT: the NBT tag codec (aPyNBT/nbt.py) and the Region     *)
(* container codec (aPyNBT/region.py).                                     *)
(*                                                                         *)
(* Bytes are sequences of integers in 0..255.  A Python value that can be  *)
(* a list element or a scalar payload is a record [py |-> type, v |-> x];  *)
(* a tag object is a record with the fields of Tag.__slots__ (and tagID).  *)
(* A call that may raise returns a record whose field err tells whether    *)
(* an exception was raised.                                                *)
(***************************************************************************)
EXTENDS Integers, Sequences, FiniteSets, TLC

VARIABLES
    tree,    \* the NBT document in memory: a sequence of top-level tags
    buf,     \* the bytes returned by the last nbt.serialize
    src,     \* the document as it was when the last nbt.serialize was called
    inbuf,   \* the bytes given to the last nbt.deserialize
    wfin,    \* inbuf was serialized from a well-framed document
    op,      \* the last operation on the document
    prev,    \* the operation before it
    err,     \* OK, or the exception the last operation raised
    steps,   \* the number of operations so far
    reg,     \* the Region object
    rbuf,    \* the bytes returned by the last Region.serialize
    rsrc,    \* the Region as it was when the last Region.serialize was called
    rop,     \* the last operation on the Region
    rerr,    \* OK, or the exception the last Region operation raised
    rdec,    \* rsrc was a Region decoded from bytes
    rsteps,  \* the number of Region operations so far
    clens,   \* by cell, the length of the compressed data of its chunk
    cdir,    \* the offset and the span that were computed for every chunk
    cerr     \* OK, or the exception the sector accounting raised

nbtVars == <<tree, buf, src, inbuf, wfin, op, prev, err, steps>>

spanVars == <<clens, cdir, cerr>>

regionVars == <<reg, rbuf, rsrc, rop, rerr, rdec, rsteps, spanVars>>

vars == <<nbtVars, regionVars>>

(***************************************************************************)
(* Python built-ins                                                        *)
(***************************************************************************)
Min(a, b) == IF a <= b THEN a ELSE b

Max(a, b) == IF a >= b THEN a ELSE b

\* data[a:b] for 0 <= a, 0 <= b: a slice never raises, it is clamped
Slice(data, a, b) == SubSeq(data, a + 1, Min(b, Len(data)))

\* data[a:]
From(data, a) == SubSeq(data, a + 1, Len(data))

\* bytes(n) / bytearray(n): n zero bytes
Zeros(n) == [i \in 1..n |-> 0]

\* the attribute value None of name
None == <<-1>>

\* the attribute value None of tagID
NoTagID == -1

PyNone == [py |-> "None", v |-> 0]

PyInt(x) == [py |-> "int", v |-> x]

PyFloat(x) == [py |-> "float", v |-> x]

PyStr(s) == [py |-> "str", v |-> s]

PyList(s) == [py |-> "list", v |-> s]

PyByteArray(s) == [py |-> "bytearray", v |-> s]

\* the value of err when no exception was raised
OK == "ok"

Pow2(k) == 2 ^ k

Pow256(k) == 256 ^ k

\* floor(log2(u)) for u >= 1
RECURSIVE Log2(_)
Log2(u) == IF u <= 1 THEN 0 ELSE 1 + Log2(u \div 2)

\* int.from_bytes(b, byteorder='big', signed=False)
RECURSIVE UnsignedFromBytes(_)
UnsignedFromBytes(b) ==
    IF b = <<>> THEN 0
    ELSE UnsignedFromBytes(SubSeq(b, 1, Len(b) - 1)) * 256 + b[Len(b)]

\* unpack("!I", b)[0] for 4 bytes b.  A count of 2^24 or more stands for
\* every larger one: no buffer of the model is that long, so every slice
\* it bounds is clamped alike
Unpack_I(b) == IF b[1] >= 1 THEN Pow256(3) ELSE UnsignedFromBytes(b)

\* u.to_bytes(w, byteorder='big', signed=False) for 0 <= u < 256^w;
\* the model's integers are below 2^31, so bytes above the fourth are 0
UnsignedToBytes(u, w) ==
    [i \in 1..w |-> IF w - i >= 4 THEN 0 ELSE (u \div Pow256(w - i)) % 256]

\* does u fit an unsigned field of w bytes
FitsUnsigned(u, w) == u >= 0 /\ (w >= 4 \/ u < Pow256(w))

\* does v fit a signed field of w bytes (to_bytes raises OverflowError
\* otherwise); every integer of the model fits 4 and 8 bytes
FitsSigned(v, w) ==
    w >= 4 \/ (v >= -(Pow256(w) \div 2) /\ v <= (Pow256(w) \div 2) - 1)

\* v.to_bytes(w, byteorder='big', signed=True): two's complement
SignedToBytes(v, w) ==
    IF v >= 0 THEN UnsignedToBytes(v, w)
    ELSE [i \in 1..w |-> 255 - UnsignedToBytes(-(v + 1), w)[i]]

\* SignedFromBytes with the sign bit dropped
SignedFromBytes_SignDropped(b) ==
    IF b = <<>> THEN 0 ELSE UnsignedFromBytes(<<b[1] % 128>> \o Tail(b))

\* the value of at most 4 bytes of two's complement, big-endian
SignedFromBytes(b) ==
    IF b = <<>> THEN 0
    ELSE IF b[1] < 128 THEN UnsignedFromBytes(b)
    ELSE (-UnsignedFromBytes([i \in 1..Len(b) |-> 255 - b[i]])) - 1

\* the shortest two's complement form of the same integer
RECURSIVE Minimal(_)
Minimal(b) ==
    IF Len(b) >= 2 /\ ((b[1] = 0 /\ b[2] < 128) \/ (b[1] = 255 /\ b[2] >= 128))
    THEN Minimal(SubSeq(b, 2, Len(b)))
    ELSE b

\* a Python int that needs more than 4 bytes is kept as its shortest two's
\* complement form m
PyBigInt(m) == [py |-> "bigint", v |-> m]

IsPyInt(x) == x.py \in {"int", "bigint"}

\* int.from_bytes(b, byteorder='big', signed=True); b may be shorter than
\* the width asked for (a clamped slice), the empty string gives 0
PyIntFromBytes(b) ==
    IF Len(Minimal(b)) <= 4 THEN PyInt(SignedFromBytes(Minimal(b)))
    ELSE PyBigInt(Minimal(b))

\* PyIntFits that lets every integer pass
PyIntFits_Always(value, w) == TRUE

\* does value.to_bytes(w, byteorder='big', signed=True) raise OverflowError
PyIntFits(value, w) ==
    IF value.py = "int" THEN FitsSigned(value.v, w) ELSE Len(value.v) <= w

\* value.to_bytes(w, byteorder='big', signed=True) for a value that fits
PyIntToBytes(value, w) ==
    IF value.py = "int" THEN SignedToBytes(value.v, w)
    ELSE [i \in 1..(w - Len(value.v)) |-> IF value.v[1] >= 128 THEN 255 ELSE 0]
         \o value.v

(***************************************************************************)
(* str.encode('utf-8') and bytes.decode('utf-8'); a str is a sequence of   *)
(* code points                                                             *)
(***************************************************************************)
IsSurrogate(cp) == cp >= 55296 /\ cp <= 57343

EncodeCodePoint(cp) ==
    IF cp < 128 THEN <<cp>>
    ELSE IF cp < 2048 THEN <<192 + (cp \div 64), 128 + (cp % 64)>>
    ELSE IF cp < 65536 THEN
        <<224 + (cp \div 4096), 128 + ((cp \div 64) % 64), 128 + (cp % 64)>>
    ELSE <<240 + (cp \div 262144), 128 + ((cp \div 4096) % 64),
           128 + ((cp \div 64) % 64), 128 + (cp % 64)>>

RECURSIVE Utf8Encode(_)
Utf8Encode(s) ==
    IF s = <<>> THEN <<>>
    ELSE EncodeCodePoint(s[1]) \o Utf8Encode(SubSeq(s, 2, Len(s)))

\* does s.encode('utf-8') raise (UnicodeEncodeError on a lone surrogate)
Utf8EncodeFails(s) == \E i \in 1..Len(s) : IsSurrogate(s[i])

IsCont(b, i) == i <= Len(b) /\ b[i] >= 128 /\ b[i] < 192

\* [bad, s]: strict UTF-8 decoding (no overlong forms, no surrogates, no
\* code point above U+10FFFF, no truncated sequence)
RECURSIVE Utf8Decode(_)
Utf8Decode(b) ==
    IF b = <<>> THEN [bad |-> FALSE, s |-> <<>>]
    ELSE
      LET c == b[1]
          n == IF c < 128 THEN 1
               ELSE IF c >= 194 /\ c < 224 THEN 2
               ELSE IF c >= 224 /\ c < 240 THEN 3
               ELSE IF c >= 240 /\ c < 245 THEN 4
               ELSE 0
          okCont == n >= 1 /\ \A k \in 2..n : IsCont(b, k)
          cp == IF n = 1 THEN c
                ELSE IF n = 2 THEN (c - 192) * 64 + (b[2] - 128)
                ELSE IF n = 3 THEN
                    (c - 224) * 4096 + (b[2] - 128) * 64 + (b[3] - 128)
                ELSE (c - 240) * 262144 + (b[2] - 128) * 4096
                     + (b[3] - 128) * 64 + (b[4] - 128)
          okRange == (n = 3 => (cp >= 2048 /\ ~IsSurrogate(cp)))
                     /\ (n = 4 => (cp >= 65536 /\ cp <= 1114111))
      IN IF ~okCont THEN [bad |-> TRUE, s |-> <<>>]
         ELSE IF ~okRange THEN [bad |-> TRUE, s |-> <<>>]
         ELSE LET rest == Utf8Decode(SubSeq(b, n + 1, Len(b)))
              IN [bad |-> rest.bad, s |-> <<cp>> \o rest.s]

(***************************************************************************)
(* struct.pack / struct.unpack with "!f" and "!d".  A Python float is      *)
(* modelled by its value when that value is an integer of magnitude below  *)
(* 2^28; binary32 keeps 24 significant bits and rounds to nearest, ties to *)
(* even; binary64 holds every such value exactly.  Any other float comes   *)
(* from unpacking and is kept as the bytes it was unpacked from, which     *)
(* packing with the same format gives back.                                *)
(***************************************************************************)
PackF32(x) ==
    IF x = 0 THEN <<0, 0, 0, 0>>
    ELSE
      LET sign == IF x < 0 THEN 128 ELSE 0
          a == IF x < 0 THEN -x ELSE x
          e == Log2(a)
          shift == e - 23
          q == a \div Pow2(shift)
          r == a % Pow2(shift)
          half == Pow2(shift - 1)
          up == IF r > half \/ (r = half /\ q % 2 = 1) THEN 1 ELSE 0
          sig == IF e <= 23 THEN a * Pow2(23 - e) ELSE q + up
          carry == sig = Pow2(24)
          E == IF carry THEN e + 128 ELSE e + 127
          frac == IF carry THEN 0 ELSE sig - Pow2(23)
      IN <<sign + (E \div 2), (E % 2) * 128 + (frac \div 65536),
           (frac \div 256) % 256, frac % 256>>

\* a float whose value the model does not hold is kept as the bytes b it
\* was unpacked from
PyFloatBits(b) == [py |-> "floatbits", v |-> b]

UnpackF32(b) ==
    LET E == (b[1] % 128) * 2 + (b[2] \div 128)
        frac == (b[2] % 128) * 65536 + b[3] * 256 + b[4]
        sig == Pow2(23) + frac
        a == IF E >= 150 THEN sig * Pow2(E - 150) ELSE sig \div Pow2(150 - E)
    IN IF b = <<0, 0, 0, 0>> THEN PyFloat(0)
       ELSE IF E < 127 \/ E > 154 THEN PyFloatBits(b)
       ELSE IF E < 150 /\ sig % Pow2(150 - E) # 0 THEN PyFloatBits(b)
       ELSE PyFloat(IF b[1] >= 128 THEN -a ELSE a)

PackF64(x) ==
    IF x = 0 THEN <<0, 0, 0, 0, 0, 0, 0, 0>>
    ELSE
      LET sign == IF x < 0 THEN 128 ELSE 0
          a == IF x < 0 THEN -x ELSE x
          e == Log2(a)
          E == e + 1023
          m28 == (a - Pow2(e)) * Pow2(28 - e)
      IN <<sign + (E \div 16), (E % 16) * 16 + (m28 \div 16777216),
           (m28 \div 65536) % 256, (m28 \div 256) % 256, m28 % 256, 0, 0, 0>>

UnpackF64(b) ==
    LET E == (b[1] % 128) * 16 + (b[2] \div 16)
        m28 == (b[2] % 16) * 16777216 + b[3] * 65536 + b[4] * 256 + b[5]
        sig == Pow2(28) + m28
        a == sig \div Pow2(1051 - E)
    IN IF b = <<0, 0, 0, 0, 0, 0, 0, 0>> THEN PyFloat(0)
       ELSE IF E < 1023 \/ E > 1050 THEN PyFloatBits(b)
       ELSE IF b[6] # 0 \/ b[7] # 0 \/ b[8] # 0 THEN PyFloatBits(b)
       ELSE IF sig % Pow2(1051 - E) # 0 THEN PyFloatBits(b)
       ELSE PyFloat(IF b[1] >= 128 THEN -a ELSE a)

(***************************************************************************)
(* Tags (nbt.py)                                                           *)
(***************************************************************************)
\* the tid of every class of TAGS, the keys of TAG_TYPES
TAGS == 0..12

\* the class attribute _is_primitive
is_primitive(tid) == tid \in {1, 2, 3, 4, 5, 6, 8}

\* the class attribute width
width(tid) ==
    CASE tid = 1 -> 1 [] tid = 2 -> 2 [] tid = 3 -> 4 [] tid = 4 -> 8
      [] tid = 5 -> 4 [] tid = 6 -> 8 [] tid = 7 -> 1
      [] tid = 11 -> 4 [] tid = 12 -> 8 [] OTHER -> 0

IsTagInt(tid) == tid \in {1, 2, 3, 4}

IsTagFloat(tid) == tid \in {5, 6}

IsTagIterableNumeric(tid) == tid \in {11, 12}

IsTag(x) == x.py = "Tag"

MkTag(tid, name, payload, size, tagged, named, tagID) ==
    [py |-> "Tag", tid |-> tid, name |-> name, payload |-> payload,
     size |-> size, tagged |-> tagged, named |-> named, tagID |-> tagID]

\* TAG_End.__init__: the arguments are ignored, _size is the class
\* attribute 1
TAG_End == MkTag(0, None, PyNone, 1, TRUE, FALSE, NoTagID)

\* Tag.__init__ (and TAG_List.__init__) with nbt_data=None; namedArg is
\* "None", "True" or "False"
Tag_init(tid, name, payload, namedArg, tagged, tagID) ==
    IF tid = 0 THEN TAG_End
    ELSE IF namedArg = "None" /\ name = None THEN
        MkTag(tid, None, payload, 0, tagged, FALSE, tagID)
    ELSE IF namedArg = "False" THEN
        MkTag(tid, None, payload, 0, tagged, FALSE, tagID)
    ELSE IF name # None /\ name # <<>> THEN
        MkTag(tid, name, payload, 0, tagged, TRUE, tagID)
    ELSE MkTag(tid, <<>>, payload, 0, tagged, TRUE, tagID)

\* the attributes set by Tag.__init__ before it calls deserialize
FreshTag(tid, namedArg, tagged) ==
    MkTag(tid, None, PyNone, 0, tagged, namedArg # "False", NoTagID)

\* Tag.deserialize_name: [err, name, width]
deserialize_name(data) ==
    LET hdr == Slice(data, 0, 2)
        Decoded(w, dec) ==
            IF dec.bad THEN
                [err |-> "UnicodeDecodeError", name |-> None, width |-> 0]
            ELSE [err |-> OK, name |-> dec.s, width |-> w]
        Sized(w) == Decoded(w, Utf8Decode(Slice(data, 2, w)))
    IN IF Len(hdr) # 2 THEN [err |-> "struct.error", name |-> None, width |-> 0]
       ELSE Sized(2 + UnsignedFromBytes(hdr))

\* deserialize_primitive that reads the first byte alone, unsigned
deserialize_primitive_FirstByte(tid, data) ==
    [err |-> OK, value |-> PyInt(UnsignedFromBytes(Slice(data, 0, 1))),
     width |-> width(tid)]

\* deserialize_primitive of TagInt, TagFloat and TAG_String:
\* [err, value, width]
deserialize_primitive(tid, data) ==
    IF IsTagInt(tid) THEN
        [err |-> OK, value |-> PyIntFromBytes(Slice(data, 0, width(tid))),
         width |-> width(tid)]
    ELSE IF IsTagFloat(tid) THEN
        LET b == Slice(data, 0, width(tid))
        IN IF Len(b) # width(tid) THEN
               [err |-> "struct.error", value |-> PyNone, width |-> 0]
           ELSE [err |-> OK,
                 value |-> IF tid = 5 THEN UnpackF32(b) ELSE UnpackF64(b),
                 width |-> width(tid)]
    ELSE IF tid = 8 THEN
        LET hdr == Slice(data, 0, 2)
            Decoded(string_width, dec) ==
                IF dec.bad THEN
                    [err |-> "UnicodeDecodeError", value |-> PyNone,
                     width |-> 0]
                ELSE [err |-> OK, value |-> PyStr(dec.s),
                      width |-> string_width]
            Sized(string_size) ==
                IF string_size = 0 THEN
                    [err |-> OK, value |-> PyStr(<<>>), width |-> 2]
                ELSE Decoded(2 + string_size,
                             Utf8Decode(Slice(data, 2, 2 + string_size)))
        IN IF Len(hdr) # 2 THEN
               [err |-> "struct.error", value |-> PyNone, width |-> 0]
           ELSE Sized(UnsignedFromBytes(hdr))
    ELSE [err |-> "NotImplementedError", value |-> PyNone, width |-> 0]

\* IsTagType that finds a class for every byte
IsTagType_AnyByte(tag_id) == TRUE

\* TAG_TYPES[tag_id] does not raise KeyError
IsTagType(tag_id) == tag_id \in TAGS

\* Index0 that reads a zero byte after the last byte
Index0_ZeroPastEnd(data) ==
    IF data = <<>> THEN [err |-> OK, v |-> 0] ELSE [err |-> OK, v |-> data[1]]

\* data[0] of a memoryview: [err, v]; IndexError when there is no byte
Index0(data) ==
    IF data = <<>> THEN [err |-> "IndexError", v |-> 0]
    ELSE [err |-> OK, v |-> data[1]]

\* the largest declared List count whose elements the model decodes one by
\* one; a larger one exhausts the memory
MaxCount == 8

RECURSIVE Tag_deserialize(_, _)
RECURSIVE deserialize_payload(_, _)
RECURSIVE ListPrimitives(_, _, _, _, _)
RECURSIVE ListTags(_, _, _, _, _)
RECURSIVE CompoundLoop(_, _, _)

\* NewFromData in which a TAG_End takes no byte
NewFromData_EndWithoutByte(tid, data, namedArg, tagged) ==
    IF tid = 0 THEN [err |-> OK, tag |-> [TAG_End EXCEPT !.size = 0]]
    ELSE Tag_deserialize(FreshTag(tid, namedArg, tagged), data)

\* TAG_TYPES[tid](data, named=namedArg, tagged=tagged): [err, tag]
NewFromData(tid, data, namedArg, tagged) ==
    IF tid = 0 THEN [err |-> OK, tag |-> TAG_End]
    ELSE Tag_deserialize(FreshTag(tid, namedArg, tagged), data)

\* the loop of TAG_List.deserialize_payload over primitive elements:
\* [err, elems, offset]
ListPrimitives(tid, data, offset, n, acc) ==
    IF n = 0 THEN [err |-> OK, elems |-> acc, offset |-> offset]
    ELSE LET Added(r) ==
                 IF r.err # OK THEN
                     [err |-> r.err, elems |-> acc, offset |-> offset]
                 ELSE ListPrimitives(tid, data, offset + r.width, n - 1,
                                     Append(acc, r.value))
         IN Added(deserialize_primitive(tid, From(data, offset)))

\* the loop of TAG_List.deserialize_payload over tag elements
ListTags(tid, data, offset, n, acc) ==
    IF n = 0 THEN [err |-> OK, elems |-> acc, offset |-> offset]
    ELSE LET Added(r) ==
                 IF r.err # OK THEN
                     [err |-> r.err, elems |-> acc, offset |-> offset]
                 ELSE ListTags(tid, data, offset + r.tag.size, n - 1,
                               Append(acc, r.tag))
         IN Added(NewFromData(tid, From(data, offset), "False", FALSE))

\* the loop of TAG_Compound.deserialize_payload: [err, elems, offset]
CompoundLoop(data, offset, acc) ==
    LET Added(tag_id, r) ==
            IF r.err # OK THEN
                [err |-> r.err, elems |-> acc, offset |-> offset]
            ELSE IF tag_id = 0 THEN
                [err |-> OK, elems |-> Append(acc, r.tag),
                 offset |-> offset + r.tag.size]
            ELSE CompoundLoop(data, offset + r.tag.size, Append(acc, r.tag))
        Child(rest, tag_id) ==
            IF ~IsTagType(tag_id) THEN
                [err |-> "KeyError", elems |-> acc, offset |-> offset]
            ELSE Added(tag_id, NewFromData(tag_id, rest, "None", TRUE))
        First(rest, b) ==
            IF b.err # OK THEN
                [err |-> b.err, elems |-> acc, offset |-> offset]
            ELSE Child(rest, b.v)
        Rest(rest) == First(rest, Index0(rest))
    IN Rest(From(data, offset))

\* deserialize_payload of every tag class on tag t: [err, payload, width,
\* tagID]; when it raises, payload and tagID are what the attributes hold
\* at that point
deserialize_payload(t, data) ==
    LET same(e) == [err |-> e, payload |-> t.payload, width |-> 0,
                    tagID |-> t.tagID]
        \* self.payload, width = self.deserialize_primitive(...)
        primitive(r) ==
            IF r.err # OK THEN same(r.err)
            ELSE [err |-> OK, payload |-> r.value, width |-> r.width,
                  tagID |-> t.tagID]
        \* the payload of a List or Compound after the loop with result r
        elements(r, tagID) ==
            [err |-> r.err, payload |-> PyList(r.elems), width |-> r.offset,
             tagID |-> tagID]
    IN
    IF IsTagInt(t.tid) \/ IsTagFloat(t.tid) THEN
        primitive(deserialize_primitive(t.tid, data))
    ELSE IF t.tid = 8 THEN
        \* TAG_String.deserialize_payload reads from data[self._size:]
        primitive(deserialize_primitive(8, From(data, t.size)))
    ELSE IF t.tid = 7 THEN
        LET hdr == Slice(data, 0, 4)
            Sized(array_size) ==
                [err |-> OK,
                 payload |-> PyByteArray(Slice(data, 4, 4 + array_size)),
                 width |-> 4 + array_size, tagID |-> t.tagID]
        IN IF Len(hdr) # 4 THEN same("struct.error")
           ELSE Sized(Unpack_I(hdr))
    ELSE IF IsTagIterableNumeric(t.tid) THEN
        LET hdr == Slice(data, 0, 4)
            Unpacked(w, last_index, body) ==
                IF Len(body) % w # 0 THEN same("struct.error")
                ELSE [err |-> OK,
                      payload |-> PyList([i \in 1..(Len(body) \div w) |->
                          PyIntFromBytes(SubSeq(body, (i - 1) * w + 1, i * w))]),
                      width |-> 4 + last_index, tagID |-> t.tagID]
            Sized(w, last_index) ==
                Unpacked(w, last_index, Slice(data, 4, 4 + last_index))
        IN IF Len(hdr) # 4 THEN same("struct.error")
           ELSE Sized(width(t.tid), width(t.tid) * Unpack_I(hdr))
    ELSE IF t.tid = 9 THEN
        LET kind == Slice(data, 0, 1)
            hdr == Slice(data, 1, 5)
            Sized(tag_id, array_size) ==
                IF ~IsTagType(tag_id) THEN
                    [err |-> "KeyError", payload |-> PyList(<<>>),
                     width |-> 0, tagID |-> tag_id]
                ELSE IF array_size > MaxCount THEN
                    [err |-> "MemoryError", payload |-> PyList(<<>>),
                     width |-> 0, tagID |-> tag_id]
                ELSE IF is_primitive(tag_id) THEN
                    elements(ListPrimitives(tag_id, data, 5, array_size, <<>>),
                             tag_id)
                ELSE elements(ListTags(tag_id, data, 5, array_size, <<>>),
                              tag_id)
        IN IF kind = <<>> THEN
               [err |-> "IndexError", payload |-> PyList(<<>>), width |-> 0,
                tagID |-> t.tagID]
           ELSE IF Len(hdr) # 4 THEN
               [err |-> "struct.error", payload |-> PyList(<<>>), width |-> 0,
                tagID |-> kind[1]]
           ELSE Sized(kind[1], Unpack_I(hdr))
    ELSE IF t.tid = 10 THEN elements(CompoundLoop(data, 0, <<>>), t.tagID)
    ELSE same("NotImplementedError")

\* Tag.deserialize on the existing tag t: [err, tag]; tag is the object
\* after the call, also when the call raised
Tag_deserialize(t, data) ==
    LET offset0 == IF t.tagged THEN 1 ELSE 0
        \* pl: deserialize_payload on the tag t1 at offset1
        Payload(offset1, t1, pl) ==
            IF pl.err # OK THEN
                [err |-> pl.err,
                 tag |-> [t1 EXCEPT !.payload = pl.payload,
                                    !.tagID = pl.tagID]]
            ELSE [err |-> OK,
                  tag |-> [t1 EXCEPT !.payload = pl.payload,
                                     !.tagID = pl.tagID,
                                     !.size = offset1 + pl.width]]
        Name(offset1, t1) ==
            Payload(offset1, t1, deserialize_payload(t1, From(data, offset1)))
        \* nm: deserialize_name
        Start(nm) ==
            IF nm.err # OK THEN [err |-> nm.err, tag |-> t]
            ELSE Name(offset0 + nm.width, [t EXCEPT !.name = nm.name])
    IN Start(IF t.named THEN deserialize_name(From(data, offset0))
             ELSE [err |-> OK, name |-> <<>>, width |-> 0])

\* the loop of nbt.deserialize: [err, tree]
RECURSIVE DeserializeLoop(_, _, _)
DeserializeLoop(nbt_data, remaining_bytes, nbt_tree) ==
    IF remaining_bytes <= 0 THEN [err |-> OK, tree |-> nbt_tree]
    ELSE
      LET index == Len(nbt_data) - remaining_bytes
          Added(r) ==
              IF r.err # OK THEN [err |-> r.err, tree |-> nbt_tree]
              ELSE IF r.tag.size < 1 THEN
                  [err |-> "AssertionError", tree |-> nbt_tree]
              ELSE DeserializeLoop(nbt_data, remaining_bytes - r.tag.size,
                                   Append(nbt_tree, r.tag))
          Top(rest, tag_id) ==
              IF ~IsTagType(tag_id) THEN [err |-> "KeyError", tree |-> nbt_tree]
              ELSE Added(NewFromData(tag_id, rest, "None", TRUE))
          Rest(rest) == Top(rest, rest[1])
      IN Rest(From(nbt_data, index))

\* nbt.deserialize: [err, tree]; tree is returned only when err = OK
deserialize(nbt_data) == DeserializeLoop(nbt_data, Len(nbt_data), <<>>)

\* serialize_tid that writes the kind byte of an untagged tag as well
serialize_tid_Always(t) == <<t.tid>>

\* Tag.serialize_tid
serialize_tid(t) == IF ~t.tagged THEN <<>> ELSE <<t.tid>>

\* serialize_name that sets the None name of an unnamed tag to "" as well
serialize_name_ResetsUnnamed(t) ==
    [err |-> OK,
     data |-> IF t.named THEN <<0, 0>> ELSE <<>>,
     name |-> IF t.name = None THEN <<>> ELSE t.name]

\* serialize_name that leaves a None name on the tag
serialize_name_KeepsNone(t) ==
    [err |-> OK,
     data |-> IF ~t.named THEN <<>>
              ELSE IF t.name = None THEN <<0, 0>>
              ELSE UnsignedToBytes(Len(Utf8Encode(t.name)), 2) \o Utf8Encode(t.name),
     name |-> t.name]

\* Tag.serialize_name: [err, data, name]; name is the attribute after the
\* call (a None name of a named tag is set to "")
serialize_name(t) ==
    LET nm == IF t.name = None THEN <<>> ELSE t.name
        encoded_string == Utf8Encode(nm)
    IN IF ~t.named THEN [err |-> OK, data |-> <<>>, name |-> t.name]
       ELSE IF Utf8EncodeFails(nm) THEN
           [err |-> "UnicodeEncodeError", data |-> <<>>, name |-> nm]
       ELSE IF ~FitsUnsigned(Len(encoded_string), 2) THEN
           [err |-> "OverflowError", data |-> <<>>, name |-> nm]
       ELSE [err |-> OK,
             data |-> UnsignedToBytes(Len(encoded_string), 2) \o encoded_string,
             name |-> nm]

\* serialize_primitive of TagInt, TagFloat and TAG_String: [err, data]
serialize_primitive(tid, value) ==
    IF IsTagInt(tid) THEN
        IF ~IsPyInt(value) THEN [err |-> "AttributeError", data |-> <<>>]
        ELSE IF ~PyIntFits(value, width(tid)) THEN
            [err |-> "OverflowError", data |-> <<>>]
        ELSE [err |-> OK, data |-> PyIntToBytes(value, width(tid))]
    ELSE IF IsTagFloat(tid) THEN
        IF value.py = "floatbits" /\ Len(value.v) = width(tid) THEN
            [err |-> OK, data |-> value.v]
        ELSE IF value.py \notin {"float", "int"} THEN
            [err |-> "struct.error", data |-> <<>>]
        ELSE [err |-> OK,
              data |-> IF tid = 5 THEN PackF32(value.v) ELSE PackF64(value.v)]
    ELSE IF tid = 8 THEN
        IF value.py # "str" THEN [err |-> "AttributeError", data |-> <<>>]
        ELSE IF Utf8EncodeFails(value.v) THEN
            [err |-> "UnicodeEncodeError", data |-> <<>>]
        ELSE IF ~FitsUnsigned(Len(Utf8Encode(value.v)), 2) THEN
            [err |-> "OverflowError", data |-> <<>>]
        ELSE [err |-> OK,
              data |-> UnsignedToBytes(Len(Utf8Encode(value.v)), 2)
                       \o Utf8Encode(value.v)]
    ELSE [err |-> "NotImplementedError", data |-> <<>>]

\* ListHead that writes the kind of the List itself for the element kind
ListHead_OwnKind(tagID, n) == <<9>> \o UnsignedToBytes(n, 4)

\* the first bytes of TAG_List.serialize_payload: the element kind and the
\* number of elements
ListHead(tagID, n) == <<tagID>> \o UnsignedToBytes(n, 4)

\* LastIsEnd with the assertion left out
LastIsEnd_Unchecked(elems) == TRUE

\* the assertion of TAG_Compound.serialize_payload on a non-empty payload
LastIsEnd(elems) == IsTag(elems[Len(elems)]) /\ elems[Len(elems)].tid = 0

RECURSIVE Tag_serialize(_)
RECURSIVE serialize_payload(_)
RECURSIVE SerializePrimitives(_, _, _, _)
RECURSIVE SerializeTags(_, _, _)

\* the loop "for primitive in self.payload": [err, data]
SerializePrimitives(tid, elems, i, data) ==
    IF i > Len(elems) THEN [err |-> OK, data |-> data]
    ELSE LET Added(r) ==
                 IF r.err # OK THEN [err |-> r.err, data |-> data]
                 ELSE SerializePrimitives(tid, elems, i + 1, data \o r.data)
         IN Added(serialize_primitive(tid, elems[i]))

\* the loop "for tag in self.payload: data += tag.serialize()" from
\* element i on: [err, data, elems]; elems are the elements after the call
SerializeTags(elems, i, data) ==
    IF i > Len(elems) THEN [err |-> OK, data |-> data, elems |-> elems]
    ELSE IF ~IsTag(elems[i]) THEN
        [err |-> "AttributeError", data |-> data, elems |-> elems]
    ELSE LET Added(r, elems1) ==
                 IF r.err # OK THEN
                     [err |-> r.err, data |-> data, elems |-> elems1]
                 ELSE SerializeTags(elems1, i + 1, data \o r.data)
             Serialized1(r) == Added(r, [elems EXCEPT ![i] = r.tag])
         IN Serialized1(Tag_serialize(elems[i]))

\* serialize_payload of every tag class: [err, data, payload, tagID];
\* payload and tagID are the attributes after the call
serialize_payload(t) ==
    LET p == t.payload
        fail(e) == [err |-> e, data |-> <<>>, payload |-> p, tagID |-> t.tagID]
        \* the result r of a loop that leaves the payload as it is
        same(r, tagID) ==
            [err |-> r.err, data |-> r.data, payload |-> p, tagID |-> tagID]
        \* the result r of a loop over tags, which may have changed them
        tags(r, tagID) ==
            [err |-> r.err, data |-> r.data, payload |-> PyList(r.elems),
             tagID |-> tagID]
    IN
    IF is_primitive(t.tid) THEN same(serialize_primitive(t.tid, p), t.tagID)
    ELSE IF t.tid = 7 THEN
        IF p.py = "bytearray" THEN
            [err |-> OK, data |-> UnsignedToBytes(Len(p.v), 4) \o p.v,
             payload |-> p, tagID |-> t.tagID]
        ELSE IF p.py # "list" THEN fail("TypeError")
        ELSE IF \E i \in 1..Len(p.v) : p.v[i].py # "int" THEN fail("TypeError")
        ELSE IF \E i \in 1..Len(p.v) : p.v[i].v < 0 \/ p.v[i].v > 255 THEN
            fail("ValueError")
        ELSE [err |-> OK,
              data |-> UnsignedToBytes(Len(p.v), 4)
                       \o [i \in 1..Len(p.v) |-> p.v[i].v],
              payload |-> p, tagID |-> t.tagID]
    ELSE IF IsTagIterableNumeric(t.tid) THEN
        IF p.py # "list" THEN fail("TypeError")
        \* numeric.to_bytes(self.width, signed=True) is what TAG_Int (for the
        \* elements of 11) and TAG_Long (of 12) do with a primitive
        ELSE same(SerializePrimitives(IF t.tid = 11 THEN 3 ELSE 4, p.v, 1,
                                      UnsignedToBytes(Len(p.v), 4)),
                  t.tagID)
    ELSE IF t.tid = 9 THEN
        IF t.tagID = NoTagID /\ p.py = "None" THEN fail("AssertionError")
        ELSE IF t.tagID = NoTagID /\ p.py # "list" THEN fail("TypeError")
        ELSE IF t.tagID = NoTagID /\ p.v = <<>> THEN fail("IndexError")
        ELSE IF t.tagID = NoTagID /\ ~IsTag(p.v[1]) THEN fail("AttributeError")
        ELSE
          LET Elements(tagID, head) ==
                  IF ~FitsUnsigned(tagID, 1) THEN
                      [err |-> "OverflowError", data |-> <<>>, payload |-> p,
                       tagID |-> tagID]
                  ELSE IF p.py # "list" THEN
                      [err |-> "TypeError", data |-> <<>>, payload |-> p,
                       tagID |-> tagID]
                  ELSE IF p.v = <<>> THEN
                      [err |-> OK, data |-> head, payload |-> p,
                       tagID |-> tagID]
                  ELSE IF tagID \notin TAGS THEN
                      [err |-> "KeyError", data |-> <<>>, payload |-> p,
                       tagID |-> tagID]
                  ELSE IF is_primitive(tagID) THEN
                      same(SerializePrimitives(tagID, p.v, 1, head), tagID)
                  ELSE tags(SerializeTags(p.v, 1, head), tagID)
              Recovered(tagID) ==
                  Elements(tagID,
                           IF FitsUnsigned(tagID, 1) /\ p.py = "list"
                           THEN ListHead(tagID, Len(p.v)) ELSE <<>>)
          IN Recovered(IF t.tagID = NoTagID THEN p.v[1].tid ELSE t.tagID)
    ELSE IF t.tid = 10 THEN
        IF p.py # "list" THEN fail("TypeError")
        ELSE IF p.v = <<>> THEN fail("IndexError")
        ELSE IF ~LastIsEnd(p.v) THEN fail("AssertionError")
        ELSE tags(SerializeTags(p.v, 1, <<>>), t.tagID)
    ELSE fail("NotImplementedError")

\* Tag.serialize: [err, data, tag]; data is returned only when err = OK,
\* tag is the object after the call
Tag_serialize(t) ==
    IF t.tid = 0 THEN [err |-> OK, data |-> <<0>>, tag |-> t]
    ELSE
      LET \* nm: serialize_name; t1: the tag after it; pl: serialize_payload;
          \* t2: the tag after that
          Done(nm, pl, t2) ==
              IF pl.err # OK THEN [err |-> pl.err, data |-> <<>>, tag |-> t2]
              ELSE [err |-> OK,
                    data |-> serialize_tid(t) \o nm.data \o pl.data,
                    tag |-> t2]
          Payload(nm, t1, pl) ==
              Done(nm, pl,
                   [t1 EXCEPT !.payload = pl.payload, !.tagID = pl.tagID])
          Name(nm, t1) ==
              IF nm.err # OK THEN [err |-> nm.err, data |-> <<>>, tag |-> t1]
              ELSE Payload(nm, t1, serialize_payload(t1))
          Start(nm) == Name(nm, [t EXCEPT !.name = nm.name])
      IN Start(serialize_name(t))

\* nbt.serialize: [err, data, tree]
RECURSIVE SerializeLoop(_, _, _)
SerializeLoop(nbt_tree, i, data) ==
    IF i > Len(nbt_tree) THEN [err |-> OK, data |-> data, tree |-> nbt_tree]
    ELSE LET Added(r, tree1) ==
                 IF r.err # OK THEN
                     [err |-> r.err, data |-> <<>>, tree |-> tree1]
                 ELSE SerializeLoop(tree1, i + 1, data \o r.data)
             Serialized1(r) == Added(r, [nbt_tree EXCEPT ![i] = r.tag])
         IN Serialized1(Tag_serialize(nbt_tree[i]))

serialize(nbt_tree) == SerializeLoop(nbt_tree, 1, <<>>)

\* validate of every tag class: the exception it raises, or OK
Tag_validate(t) ==
    LET p == t.payload
    IN
    IF IsTagInt(t.tid) THEN
        IF ~IsPyInt(p) THEN "AssertionError"
        ELSE IF ~PyIntFits(p, width(t.tid)) THEN "OverflowError"
        ELSE OK
    ELSE IF IsTagFloat(t.tid) THEN
        IF p.py \notin {"float", "floatbits"} THEN "AssertionError" ELSE OK
    ELSE IF t.tid = 7 THEN
        IF p.py # "bytearray" THEN "AssertionError" ELSE OK
    ELSE IF t.tid = 8 THEN
        IF p.py # "str" THEN "AssertionError" ELSE OK
    ELSE IF t.tid = 9 THEN
        IF p.py # "list" THEN "AssertionError"
        ELSE IF p.v = <<>> THEN OK
        ELSE IF t.tagID \notin TAGS THEN "KeyError"
        ELSE IF is_primitive(t.tagID) THEN OK
        ELSE IF \E i \in 1..Len(p.v) :
                    ~IsTag(p.v[i]) \/ p.v[i].named \/ p.v[i].tagged
             THEN "AssertionError"
        ELSE OK
    ELSE IF t.tid = 10 THEN
        IF p.py # "list" THEN "AssertionError"
        ELSE IF \E i \in 1..Len(p.v) : ~IsTag(p.v[i]) THEN "AssertionError"
        ELSE IF p.v = <<>> THEN "IndexError"
        ELSE IF p.v[Len(p.v)].tid # 0 THEN "AssertionError"
        ELSE OK
    ELSE IF IsTagIterableNumeric(t.tid) THEN
        IF p.py # "list" THEN "AssertionError"
        ELSE IF \E i \in 1..Len(p.v) : ~IsPyInt(p.v[i]) THEN "AssertionError"
        ELSE IF \E i \in 1..Len(p.v) : ~PyIntFits(p.v[i], width(t.tid)) THEN
            "OverflowError"
        ELSE OK
    ELSE "NotImplementedError"

(***************************************************************************)
(* Documents built through the constructors                                *)
(***************************************************************************)
\* the largest index of a payload variant
MaxVal == 2

\* the largest number of operations on a document
MaxSteps == 4

Names == {None, <<>>, <<97>>, <<8482, 98>>}

NamedArgs == {"None", "True", "False"}

Shapes == {"top", "two", "child", "elem", "elemNoID", "deep"}

IntVal(tid, v) ==
    CASE v = 0 -> -1
      [] v = 1 -> (IF tid = 1 THEN 127 ELSE IF tid = 2 THEN 32767 ELSE 2147483647)
      [] v = 2 -> (IF tid = 1 THEN -128 ELSE IF tid = 2 THEN -32768
                   ELSE -2147483647 - 1)
      [] OTHER -> v

ByteChild == Tag_init(1, <<98>>, PyInt(1), "None", TRUE, NoTagID)

PayloadOf(k, v) ==
    CASE k \in {1, 2, 3} -> PyInt(IntVal(k, v))
      [] k = 4 ->
            (CASE v = 1 -> PyBigInt(<<127, 255, 255, 255, 255, 255, 255, 255>>)
               [] v = 2 -> PyBigInt(<<128, 0, 0, 0, 0, 0, 0, 0>>)
               [] OTHER -> PyInt(IntVal(k, v)))
      [] k \in {5, 6} ->
            PyFloat(CASE v = 0 -> 0 [] v = 1 -> 16777217 [] v = 2 -> -3
                      [] OTHER -> v)
      [] k = 7 ->
            PyByteArray(CASE v = 0 -> <<>> [] v = 1 -> <<0, 255>> [] OTHER -> <<v>>)
      [] k = 8 ->
            PyStr(CASE v = 0 -> <<>> [] v = 1 -> <<8482, 97>> [] OTHER -> <<96 + v>>)
      [] k = 9 ->
            PyList(CASE v = 1 -> <<PyInt(1), PyInt(2), PyInt(3)>>
                     [] v = 2 -> <<PyStr(<<>>), PyStr(<<8482>>)>>
                     [] OTHER -> <<>>)
      [] k = 10 ->
            PyList(CASE v = 0 -> <<TAG_End>>
                     [] v = 1 -> <<TAG_End, ByteChild, TAG_End>>
                     [] v = 2 -> <<ByteChild>>
                     [] OTHER -> <<ByteChild, TAG_End>>)
      [] k \in {11, 12} ->
            PyList(IF v = 0 THEN <<>> ELSE <<PyInt(v), PyInt(-v)>>)
      [] OTHER -> PyNone

TagIDOf(k, v) ==
    IF k # 9 THEN NoTagID
    ELSE CASE v = 0 -> 8 [] v = 1 -> 1 [] v = 2 -> 8 [] OTHER -> 0

\* one constructor call TAG_x(name=nm, payload=..., named=namedArg,
\* tagged=tagged[, tagID=...])
Leaf(k, nm, namedArg, tagged, v) ==
    Tag_init(k, nm, PayloadOf(k, v), namedArg, tagged, TagIDOf(k, v))

\* a document that holds the tag in one of six places
Doc(shape, k, nm, namedArg, tagged, v) ==
    LET leaf == Leaf(k, nm, namedArg, tagged, v)
        elems == IF is_primitive(k) THEN <<PayloadOf(k, v), PayloadOf(k, 0)>>
                 ELSE <<leaf, leaf>>
    IN CASE shape = "top" -> <<leaf>>
         [] shape = "two" ->
              <<leaf, Tag_init(10, <<120>>, PyList(<<TAG_End>>), "None", TRUE, NoTagID)>>
         [] shape = "child" ->
              <<Tag_init(10, <<>>, PyList(<<leaf, TAG_End>>), "None", TRUE, NoTagID)>>
         [] shape = "elem" ->
              <<Tag_init(9, <<108>>, PyList(elems), "None", TRUE, k)>>
         [] shape = "elemNoID" ->
              <<Tag_init(9, <<108>>, PyList(<<leaf>>), "None", TRUE, NoTagID)>>
         [] OTHER ->
              <<Tag_init(10, <<>>, PyList(<<
                   Tag_init(9, <<108>>, PyList(<<
                       Tag_init(10, None, PyList(<<leaf, TAG_End>>), "None",
                                FALSE, NoTagID)>>), "None", TRUE, 10),
                   TAG_End>>), "None", TRUE, NoTagID)>>

\* the framing the decoder expects: a top-level tag and a Compound child
\* carry a kind byte and a name, a List element carries neither and is of
\* the List's element kind, a Compound holds one End, at its end
RECURSIVE WellFramedTag(_, _)
WellFramedTag(t, inList) ==
    /\ t.tid # 0 => (t.tagged = ~inList /\ t.named = ~inList)
    /\ t.tid = 9 =>
        LET elems == t.payload.v
            kind == IF t.tagID # NoTagID THEN t.tagID
                    ELSE IF elems # <<>> /\ IsTag(elems[1]) THEN elems[1].tid
                    ELSE NoTagID
        IN /\ t.payload.py = "list"
           /\ kind \in TAGS
           /\ \A i \in 1..Len(elems) :
                IF is_primitive(kind) THEN ~IsTag(elems[i])
                ELSE /\ IsTag(elems[i])
                     /\ elems[i].tid = kind
                     /\ WellFramedTag(elems[i], TRUE)
    /\ t.tid = 10 =>
        LET elems == t.payload.v
        IN /\ t.payload.py = "list"
           /\ elems # <<>>
           /\ \A i \in 1..Len(elems) :
                /\ IsTag(elems[i])
                /\ (elems[i].tid = 0) = (i = Len(elems))
                /\ WellFramedTag(elems[i], FALSE)

WellFramed(doc) == \A i \in 1..Len(doc) : WellFramedTag(doc[i], FALSE)

(***************************************************************************)
(* aPyNBT/region.py: the Region container                                  *)
(*                                                                         *)
(* A cell (x, z) of the 32 x 32 grid is the number c = 32 * z + x, so that *)
(* metadata_offset = 128 * z + 4 * x = 4 * c, and range(0, 32) over z and  *)
(* then x is the ascending order of c.  A table of the Region (a           *)
(* defaultdict of defaultdicts) is a function on some of the cells; a cell *)
(* outside its domain holds the default of the table.                      *)
(***************************************************************************)
\* the size of a sector in bytes
SECTOR == 4096

\* the cells of a region: range(0, 32) for z and for x
CELLS == 0..1023

GZIP == 1

ZLIB == 2

\* the default of Region.compression
NoCompression == 0

\* table[z][x] of a defaultdict with default d
Get(table, c, d) == IF c \in DOMAIN table THEN table[c] ELSE d

\* table[z][x] = v
Put(table, c, v) ==
    [k \in (DOMAIN table) \cup {c} |-> IF k = c THEN v ELSE table[k]]

\* Region(region_data=None): the tables of a new Region
EmptyRegion ==
    [chunks |-> <<>>, timestamps |-> <<>>, compression |-> <<>>,
     offsets |-> <<>>, sectors |-> <<>>]

\* the cells of S in the order of the loops over z and x
RECURSIVE CellOrder(_)
CellOrder(S) ==
    IF S = {} THEN <<>>
    ELSE LET m == CHOOSE x \in S : \A y \in S : x <= y
         IN <<m>> \o CellOrder(S \ {m})

\* data without its leading zero bytes: data.lstrip(b"\x00")
LStripZeros(data) ==
    LET nz == {i \in 1..Len(data) : data[i] # 0}
    IN IF nz = {} THEN <<>>
       ELSE SubSeq(data, CHOOSE i \in nz : \A j \in nz : i <= j, Len(data))

\* zlib.compress and gzip.compress: a two-byte magic, the length of the
\* data, the data.  The output is as long as the input plus six bytes.
Compress(magic, data) == magic \o UnsignedToBytes(Len(data), 4) \o data

gzip_compress(data) == Compress(<<31, 139>>, data)

zlib_compress(data) == Compress(<<120, 156>>, data)

\* the first compressed stream of b: its data and the bytes after it
Member(magic, b, error) ==
    IF Len(b) < 6 \/ SubSeq(b, 1, 2) # magic THEN
        [err |-> error, data |-> <<>>, rest |-> <<>>]
    ELSE LET n == Unpack_I(SubSeq(b, 3, 6))
         IN IF Len(b) < 6 + n THEN
                [err |-> error, data |-> <<>>, rest |-> <<>>]
            ELSE [err |-> OK, data |-> SubSeq(b, 7, 6 + n),
                  rest |-> SubSeq(b, 7 + n, Len(b))]

\* zlib.decompress: the bytes after the stream are ignored
zlib_decompress(b) ==
    LET m == Member(<<120, 156>>, b, "zlib.error")
    IN [err |-> m.err, data |-> m.data]

\* gzip.decompress: zero bytes after a member are skipped, and what is left
\* must be another member
RECURSIVE gzip_members(_)
gzip_members(b) ==
    LET m == Member(<<31, 139>>, b, "BadGzipFile")
        rest == LStripZeros(m.rest)
    IN IF m.err # OK THEN [err |-> m.err, data |-> <<>>]
       ELSE IF rest = <<>> THEN [err |-> OK, data |-> m.data]
       ELSE LET more == gzip_members(rest)
            IN [err |-> more.err, data |-> m.data \o more.data]

gzip_decompress(b) ==
    IF b = <<>> THEN [err |-> OK, data |-> <<>>] ELSE gzip_members(b)

\* chunk_span with the quotient rounded down and one sector added
chunk_span_Floor(chunk_size) == chunk_size \div SECTOR + 1

\* chunk_span = ceil(chunk_size / 4096)
chunk_span(chunk_size) == (chunk_size + SECTOR - 1) \div SECTOR

\* chunk_data without the pre-allocation of whole sectors
chunk_data_Unpadded(chunk_size, chunk_compression, serialized_chunk_data, span) ==
    UnsignedToBytes(chunk_size, 4) \o <<chunk_compression>>
        \o serialized_chunk_data

\* the pre-allocated, zero-filled chunk_data with the length, the
\* compression byte and the compressed data written to it
chunk_data(chunk_size, chunk_compression, serialized_chunk_data, span) ==
    UnsignedToBytes(chunk_size, 4) \o <<chunk_compression>>
        \o serialized_chunk_data
        \o Zeros(span * SECTOR - 5 - Len(serialized_chunk_data))

\* EncodeChunk that skips the sectors the cell was seen to span when it was
\* decoded
EncodeChunk_AfterObserved(r, c, next_offset) ==
    LET chunk_compression == Get(r.compression, c, NoCompression)
        Sized(s, serialized_chunk_data, chunk_size, span) ==
            [err |-> IF s.err # OK THEN s.err
                     ELSE IF chunk_compression \notin {GZIP, ZLIB}
                          THEN "ValueError" ELSE OK,
             c |-> c, tree |-> s.tree,
             offset |-> next_offset + Get(r.sectors, c, 0), span |-> span,
             compressed |-> serialized_chunk_data,
             bytes |-> chunk_data(chunk_size, chunk_compression,
                                  serialized_chunk_data, span)]
        Compressed(s, serialized_chunk_data) ==
            Sized(s, serialized_chunk_data, 5 + Len(serialized_chunk_data),
                  chunk_span(5 + Len(serialized_chunk_data)))
        Serialized1(s) ==
            Compressed(s, IF chunk_compression = ZLIB
                          THEN zlib_compress(s.data)
                          ELSE gzip_compress(s.data))
    IN Serialized1(serialize(r.chunks[c]))

\* the body of the first loop of Region.serialize for the occupied cell c
EncodeChunk(r, c, next_offset) ==
    LET chunk_compression == Get(r.compression, c, NoCompression)
        Sized(s, serialized_chunk_data, chunk_size, span) ==
            [err |-> IF s.err # OK THEN s.err
                     ELSE IF chunk_compression \notin {GZIP, ZLIB}
                          THEN "ValueError" ELSE OK,
             c |-> c, tree |-> s.tree, offset |-> next_offset, span |-> span,
             compressed |-> serialized_chunk_data,
             bytes |-> chunk_data(chunk_size, chunk_compression,
                                  serialized_chunk_data, span)]
        Compressed(s, serialized_chunk_data) ==
            Sized(s, serialized_chunk_data, 5 + Len(serialized_chunk_data),
                  chunk_span(5 + Len(serialized_chunk_data)))
        Serialized1(s) ==
            Compressed(s, IF chunk_compression = ZLIB
                          THEN zlib_compress(s.data)
                          ELSE gzip_compress(s.data))
    IN Serialized1(serialize(r.chunks[c]))

\* the first loop of Region.serialize over the occupied cells occ
RECURSIVE EncodeLoop(_, _, _, _, _)
EncodeLoop(r, occ, i, next_offset, acc) ==
    IF i > Len(occ) THEN [err |-> OK, cells |-> acc]
    ELSE LET Added(e) ==
                 IF e.err # OK THEN [err |-> e.err, cells |-> Append(acc, e)]
                 ELSE EncodeLoop(r, occ, i + 1, next_offset + e.span,
                                 Append(acc, e))
         IN Added(EncodeChunk(r, occ[i], next_offset))

\* bytearray[at : at + len(b)] = b
WriteAt(data, at, b) ==
    SubSeq(data, 1, at) \o b \o SubSeq(data, at + Len(b) + 1, Len(data))

\* metadata with the directory entries of the encoded cells written to it
RECURSIVE WriteDirectory(_, _, _)
WriteDirectory(metadata, cells, i) ==
    IF i > Len(cells) THEN metadata
    ELSE WriteDirectory(
            WriteAt(metadata, 4 * cells[i].c,
                    UnsignedToBytes(cells[i].offset, 3) \o <<cells[i].span>>),
            cells, i + 1)

\* timestamps with self.timestamps[z][x] written to it for the cells of order
RECURSIVE WriteTimestamps(_, _, _, _)
WriteTimestamps(timestamps, table, order, i) ==
    IF i > Len(order) THEN timestamps
    ELSE WriteTimestamps(
            WriteAt(timestamps, 4 * order[i],
                    UnsignedToBytes(table[order[i]], 4)),
            table, order, i + 1)

\* PackChunks that packs the last encoded cell first
RECURSIVE PackChunks_Reversed(_, _)
PackChunks_Reversed(cells, i) ==
    IF i > Len(cells) THEN <<>>
    ELSE PackChunks_Reversed(cells, i + 1) \o cells[i].bytes

\* packed_chunk_data: the chunk_bytes of the encoded cells, in order
RECURSIVE PackChunks(_, _)
PackChunks(cells, i) ==
    IF i > Len(cells) THEN <<>>
    ELSE cells[i].bytes \o PackChunks(cells, i + 1)

\* MetadataError without the limit of the one-byte span field
MetadataError_SpanUnchecked(r, cells, c) ==
    LET mine == {i \in 1..Len(cells) : cells[i].c = c}
    IN IF \E i \in mine : ~FitsUnsigned(cells[i].offset, 3) THEN "OverflowError"
       ELSE IF ~FitsUnsigned(Get(r.timestamps, c, 0), 4) THEN "struct.error"
       ELSE OK

\* what the second loop of Region.serialize raises at cell c, if anything
MetadataError(r, cells, c) ==
    LET mine == {i \in 1..Len(cells) : cells[i].c = c}
    IN IF \E i \in mine : ~FitsUnsigned(cells[i].offset, 3) THEN "OverflowError"
       ELSE IF \E i \in mine : cells[i].span > 255 THEN "struct.error"
       ELSE IF ~FitsUnsigned(Get(r.timestamps, c, 0), 4) THEN "struct.error"
       ELSE OK

\* Region.serialize: the exception or the bytes, and the Region after the
\* call (nbt.serialize may have changed the trees)
Region_serialize(r) ==
    LET \* enc: the first loop; after: the Region after it; bad: the cells
        \* at which the second loop raises
        Packed(enc, after, bad) ==
            IF enc.err # OK THEN
                [err |-> enc.err, data |-> <<>>, region |-> after,
                 cells |-> <<>>]
            ELSE IF bad # {} THEN
                [err |-> MetadataError(r, enc.cells,
                            CHOOSE c \in bad : \A d \in bad : c <= d),
                 data |-> <<>>, region |-> after, cells |-> <<>>]
            ELSE [err |-> OK,
                  data |-> WriteDirectory(Zeros(SECTOR), enc.cells, 1)
                           \o WriteTimestamps(Zeros(SECTOR), r.timestamps,
                                   CellOrder(DOMAIN r.timestamps), 1)
                           \o PackChunks(enc.cells, 1),
                  region |-> after, cells |-> enc.cells]
        Encoded(enc) ==
            Packed(enc,
                   [r EXCEPT !.chunks =
                      [c \in DOMAIN r.chunks |->
                          IF \E i \in 1..Len(enc.cells) : enc.cells[i].c = c
                          THEN (LET i == CHOOSE i \in 1..Len(enc.cells) :
                                              enc.cells[i].c = c
                                IN enc.cells[i].tree)
                          ELSE r.chunks[c]]],
                   {c \in DOMAIN r.chunks \cup DOMAIN r.timestamps :
                       MetadataError(r, enc.cells, c) # OK})
    IN Encoded(EncodeLoop(r, CellOrder(DOMAIN r.chunks), 1, 2, <<>>))

\* deserialize_chunk raises e on the Region seen
chunk_raises(e, seen) == [err |-> e, region |-> seen, handed |-> <<>>]

\* the end of deserialize_chunk: the tree doc of the chunk, its timestamp
\* and its compression are stored in the tables
chunk_stored(seen, c, timestamp_bytes, chunk_compression, raw, doc) ==
    IF doc.err # OK THEN chunk_raises(doc.err, seen)
    ELSE [err |-> OK,
          region |-> [seen EXCEPT
             !.chunks = Put(seen.chunks, c, doc.tree),
             !.timestamps = Put(seen.timestamps, c,
                                UnsignedFromBytes(timestamp_bytes)),
             !.compression = Put(seen.compression, c, chunk_compression)],
          handed |-> raw]

\* unz: the decompressed chunk_data, handed to nbt.deserialize
chunk_decompressed(seen, c, timestamp_bytes, chunk_compression, raw, unz) ==
    IF unz.err # OK THEN chunk_raises(unz.err, seen)
    ELSE chunk_stored(seen, c, timestamp_bytes, chunk_compression, raw,
                      deserialize(unz.data))

\* raw: chunk_data as it is read from region_data, handed to gzip or zlib
chunk_read(seen, c, timestamp_bytes, chunk_compression, raw) ==
    chunk_decompressed(seen, c, timestamp_bytes, chunk_compression, raw,
                       IF chunk_compression = GZIP THEN gzip_decompress(raw)
                       ELSE zlib_decompress(raw))

\* the frame at chunk_offset: its length, its compression byte, its data
chunk_frame(seen, region_data, c, timestamp_bytes, chunk_offset) ==
    LET chunk_size_bytes == Slice(region_data, chunk_offset, chunk_offset + 4)
        compression_bytes ==
            Slice(region_data, chunk_offset + 4, chunk_offset + 5)
    IN IF Len(timestamp_bytes) # 4 THEN chunk_raises("struct.error", seen)
       ELSE IF Len(chunk_size_bytes) # 4 THEN
           chunk_raises("struct.error", seen)
       ELSE IF compression_bytes = <<>> THEN chunk_raises("IndexError", seen)
       ELSE IF compression_bytes[1] \notin {GZIP, ZLIB} THEN
           chunk_raises("ValueError", seen)
       ELSE chunk_read(seen, c, timestamp_bytes, compression_bytes[1],
                       Slice(region_data, chunk_offset + 5,
                             chunk_offset + 5 + Unpack_I(chunk_size_bytes)))

\* seen: the Region with the offset and the sectors of the cell recorded
chunk_entry(seen, region_data, c, offset, sectors) ==
    IF offset = 0 /\ sectors = 0 THEN
        [err |-> OK, region |-> seen, handed |-> <<>>]
    \* a slice that starts after the last byte is empty wherever it starts
    ELSE chunk_frame(seen, region_data, c,
                     Slice(region_data, 4 * c + SECTOR, 4 * c + SECTOR + 4),
                     SECTOR * Min(offset, Len(region_data)))

\* the directory entry of the cell: offset and sectors
chunk_metadata(r, region_data, c, offset, sectors) ==
    chunk_entry([r EXCEPT
                   !.offsets = IF offset = 0 THEN r.offsets
                               ELSE Put(r.offsets, c, offset),
                   !.sectors = IF sectors = 0 THEN r.sectors
                               ELSE Put(r.sectors, c, sectors)],
                region_data, c, offset, sectors)

\* Region.deserialize_chunk for cell c of region_data: the exception, or the
\* Region with the cell filled in
deserialize_chunk(r, region_data, c) ==
    IF Slice(region_data, 4 * c + 3, 4 * c + 4) = <<>> THEN
        chunk_raises("IndexError", r)
    ELSE chunk_metadata(r, region_data, c,
                        UnsignedFromBytes(Slice(region_data, 4 * c,
                                                4 * c + 3)),
                        Slice(region_data, 4 * c + 3, 4 * c + 4)[1])

\* the loops of Region.deserialize over the cells of order, which are the
\* cells whose directory entry is not zero or missing
RECURSIVE DeserializeCells(_, _, _, _)
DeserializeCells(r, region_data, order, i) ==
    IF i > Len(order) THEN [err |-> OK, region |-> r]
    ELSE LET Done(d) ==
                 IF d.err # OK THEN [err |-> d.err, region |-> d.region]
                 ELSE DeserializeCells(d.region, region_data, order, i + 1)
         IN Done(deserialize_chunk(r, region_data, order[i]))

\* the cells at which deserialize_chunk does anything but return: those with
\* a directory entry that is not four zero bytes, and the first one whose
\* entry lies beyond the data
BusyCells(region_data) ==
    LET short == Len(region_data) \div 4
    IN {c \in CELLS : c < short /\
            SubSeq(region_data, 4 * c + 1, 4 * c + 4) # <<0, 0, 0, 0>>}
       \cup {c \in CELLS : c = short}

\* Region.deserialize(region_data) on the Region r
Region_deserialize(r, region_data) ==
    DeserializeCells(r, region_data, CellOrder(BusyCells(region_data)), 1)

\* Region(region_data)
Region_init(region_data) == Region_deserialize(EmptyRegion, region_data)

(***************************************************************************)
(* Operations on a document                                                *)
(***************************************************************************)
RegionIdle ==
    /\ reg = EmptyRegion
    /\ rbuf = <<>>
    /\ rsrc = EmptyRegion
    /\ rop = "idle"
    /\ rerr = OK
    /\ rdec = FALSE
    /\ rsteps = 0
    /\ clens = <<>>
    /\ cdir = <<>>
    /\ cerr = OK

Init ==
    /\ \E shape \in Shapes, k \in TAGS, nm \in Names, namedArg \in NamedArgs,
          tagged \in BOOLEAN, v \in 0..MaxVal :
          tree = Doc(shape, k, nm, namedArg, tagged, v)
    /\ buf = <<>>
    /\ src = <<>>
    /\ inbuf = <<>>
    /\ wfin = FALSE
    /\ op = "init"
    /\ prev = "init"
    /\ err = OK
    /\ steps = 0
    /\ RegionIdle

\* data = nbt.serialize(tree)
Serialize ==
    /\ steps < MaxSteps
    /\ err = OK
    /\ op \in {"init", "deserialize", "empty", "assign", "rename"}
    /\ LET Returned(r) ==
               /\ src' = tree
               /\ tree' = r.tree
               /\ buf' = r.data
               /\ err' = r.err
       IN Returned(serialize(tree))
    /\ op' = "serialize"
    /\ prev' = op
    /\ steps' = steps + 1
    /\ UNCHANGED <<inbuf, wfin, regionVars>>

\* tree = nbt.deserialize(data) on the bytes of the last serialize
Deserialize ==
    /\ steps < MaxSteps
    /\ err = OK
    /\ op = "serialize"
    /\ LET Returned(r) ==
               /\ tree' = IF r.err = OK THEN r.tree ELSE <<>>
               /\ err' = r.err
       IN Returned(deserialize(buf))
    /\ inbuf' = buf
    /\ wfin' = WellFramed(src)
    /\ op' = "deserialize"
    /\ prev' = op
    /\ steps' = steps + 1
    /\ UNCHANGED <<buf, src, regionVars>>

\* tree[i].payload = [] on a top-level List, decoded or constructed
EmptyList(i) ==
    /\ steps < MaxSteps
    /\ err = OK
    /\ op \in {"init", "deserialize"}
    /\ tree[i].payload.py = "list"
    /\ tree[i].tid = 9
    /\ tree[i].payload.v # <<>>
    /\ tree' = [tree EXCEPT ![i].payload = PyList(<<>>)]
    /\ op' = "empty"
    /\ prev' = op
    /\ steps' = steps + 1
    /\ UNCHANGED <<buf, src, inbuf, wfin, err, regionVars>>

\* the values assigned to the payload of a Byte, Short, Int or Long: the
\* integers next to the ends of the four ranges, and values that are no
\* integer
Assigned ==
    {PyInt(127), PyInt(128), PyInt(-128), PyInt(-129),
     PyInt(32767), PyInt(32768), PyInt(-32768), PyInt(-32769),
     PyInt(2147483647), PyBigInt(<<0, 128, 0, 0, 0>>),
     PyInt(-2147483647 - 1), PyBigInt(<<255, 127, 255, 255, 255>>),
     PyBigInt(<<127, 255, 255, 255, 255, 255, 255, 255>>),
     PyBigInt(<<0, 128, 0, 0, 0, 0, 0, 0, 0>>),
     PyBigInt(<<128, 0, 0, 0, 0, 0, 0, 0>>),
     PyBigInt(<<255, 127, 255, 255, 255, 255, 255, 255, 255>>),
     PyStr(<<97, 98, 99>>), PyFloat(1), PyNone}

\* tree[0].payload = x on a Byte, Short, Int or Long
SetPayload(x) ==
    /\ steps < MaxSteps
    /\ err = OK
    /\ op = "init"
    /\ IsTagInt(tree[1].tid)
    /\ tree' = [tree EXCEPT ![1].payload = x]
    /\ op' = "assign"
    /\ prev' = op
    /\ steps' = steps + 1
    /\ UNCHANGED <<buf, src, inbuf, wfin, err, regionVars>>

\* tree[0].name = None on a named tag
SetNameNone ==
    /\ steps < MaxSteps
    /\ err = OK
    /\ op = "init"
    /\ tree[1].named
    /\ tree' = [tree EXCEPT ![1].name = None]
    /\ op' = "rename"
    /\ prev' = op
    /\ steps' = steps + 1
    /\ UNCHANGED <<buf, src, inbuf, wfin, err, regionVars>>

\* tag.deserialize(memoryview(tag.serialize())) on the tag t: [err, data,
\* tag]; data are the bytes that serialize returned, tag is the object
\* after the call
redeserialize(t) ==
    LET Decoded(s, d) == [err |-> d.err, data |-> s.data, tag |-> d.tag]
        Serialized(s) ==
            IF s.err # OK THEN [err |-> s.err, data |-> <<>>, tag |-> s.tag]
            ELSE Decoded(s, Tag_deserialize(s.tag, s.data))
    IN Serialized(Tag_serialize(t))

\* tree[0].deserialize(memoryview(tree[0].serialize())), once or again
ReDeserialize ==
    /\ steps < MaxSteps
    /\ err = OK
    /\ op \in {"init", "assign", "redeserialize"}
    /\ Len(tree) = 1
    /\ tree[1].tid # 0
    /\ LET Returned(r) ==
               /\ tree' = <<r.tag>>
               /\ inbuf' = r.data
               /\ err' = r.err
       IN Returned(redeserialize(tree[1]))
    /\ src' = IF op = "redeserialize" THEN src ELSE tree
    /\ wfin' = FALSE
    /\ op' = "redeserialize"
    /\ prev' = op
    /\ steps' = steps + 1
    /\ UNCHANGED <<buf, regionVars>>

\* the values appended to the payload of a List: an integer, a string and
\* an element tag
Appended ==
    {PyInt(5), PyStr(<<97>>),
     Tag_init(10, None, PyList(<<TAG_End>>), "False", FALSE, NoTagID)}

\* tree[0].payload.append(x) on a List
AppendElement(x) ==
    /\ steps < MaxSteps
    /\ err = OK
    /\ op = "init"
    /\ tree[1].tid = 9
    /\ tree[1].payload.py = "list"
    /\ tree' = [tree EXCEPT ![1].payload = PyList(Append(tree[1].payload.v, x))]
    /\ op' = "append"
    /\ prev' = op
    /\ steps' = steps + 1
    /\ UNCHANGED <<buf, src, inbuf, wfin, err, regionVars>>

\* tree[0].validate()
Validate ==
    /\ steps < MaxSteps
    /\ err = OK
    /\ op \in {"init", "assign", "append"}
    /\ err' = Tag_validate(tree[1])
    /\ op' = "validate"
    /\ prev' = op
    /\ steps' = steps + 1
    /\ UNCHANGED <<tree, buf, src, inbuf, wfin, regionVars>>

Next ==
    \/ Serialize
    \/ Deserialize
    \/ \E i \in 1..Len(tree) : EmptyList(i)
    \/ \E x \in Assigned : SetPayload(x)
    \/ SetNameNone
    \/ \E x \in Appended : AppendElement(x)
    \/ ReDeserialize
    \/ Validate

Spec == Init /\ [][Next]_vars

(***************************************************************************)
(* Operations on a Region                                                  *)
(***************************************************************************)
\* the number of assignments to the tables of a Region
MaxEdits == 2

\* the number of operations on a Region, assignments included
MaxRSteps == 5

\* the cells that are assigned to
EditCells == {0, 1, 1023}

\* the lengths of the byte array of a chunk: the frame of a chunk with a
\* byte array of m bytes is 22 + m bytes long
Pads == {0, SECTOR - 25, SECTOR - 23, SECTOR - 22, SECTOR - 21}

\* the timestamps that are assigned
Stamps == {7}

\* a chunk: a Compound "" that holds a ByteArray "" of m zero bytes
ChunkDoc(m) ==
    <<Tag_init(10, <<>>,
               PyList(<<Tag_init(7, <<>>, PyByteArray(Zeros(m)), "None", TRUE,
                                 NoTagID),
                        TAG_End>>),
               "None", TRUE, NoTagID)>>

\* the file the game writes for the chunks, timestamps and compression of
\* r: the layout of Region.serialize with, in every frame, the length field
\* N = 1 + the number of compressed bytes
RECURSIVE WriteLengths(_, _, _)
WriteLengths(data, cells, i) ==
    IF i > Len(cells) THEN data
    ELSE WriteLengths(
            WriteAt(data, SECTOR * cells[i].offset,
                    UnsignedToBytes(1 + Len(cells[i].compressed), 4)),
            cells, i + 1)

AnvilFile(r) ==
    LET Rewritten(s) ==
            [err |-> s.err, data |-> WriteLengths(s.data, s.cells, 1)]
    IN Rewritten(Region_serialize(r))

NbtIdle ==
    /\ tree = <<>>
    /\ buf = <<>>
    /\ src = <<>>
    /\ inbuf = <<>>
    /\ wfin = FALSE
    /\ op = "idle"
    /\ prev = "idle"
    /\ err = OK
    /\ steps = 0

\* r = Region(region_data=None)
InitRegion == NbtIdle /\ RegionIdle

\* r.chunks[z][x] = a chunk; r.compression[z][x] = comp
SetChunk(c, m, comp) ==
    /\ rsteps < MaxEdits
    /\ rop \in {"idle", "edit"}
    /\ reg' = [reg EXCEPT !.chunks = Put(reg.chunks, c, ChunkDoc(m)),
                          !.compression = Put(reg.compression, c, comp)]
    /\ rop' = "edit"
    /\ rsteps' = rsteps + 1
    /\ UNCHANGED <<rbuf, rsrc, rerr, rdec, nbtVars, spanVars>>

\* r.timestamps[z][x] = ts
SetTimestamp(c, ts) ==
    /\ rsteps < MaxEdits
    /\ rop \in {"idle", "edit"}
    /\ reg' = [reg EXCEPT !.timestamps = Put(reg.timestamps, c, ts)]
    /\ rop' = "edit"
    /\ rsteps' = rsteps + 1
    /\ UNCHANGED <<rbuf, rsrc, rerr, rdec, nbtVars, spanVars>>

\* r = Region(region_data) on a file of the game with the chunks of reg
RegionLoad ==
    /\ rsteps < MaxRSteps
    /\ rop = "edit"
    /\ LET Loaded(file, d) ==
               /\ file.err = OK
               /\ reg' = IF d.err = OK THEN d.region ELSE reg
               /\ rerr' = d.err
       IN Loaded(AnvilFile(reg), Region_init(AnvilFile(reg).data))
    /\ rop' = "deserialize"
    /\ rsteps' = rsteps + 1
    /\ UNCHANGED <<rbuf, rsrc, rdec, nbtVars, spanVars>>

\* data = r.serialize()
RegionSerialize ==
    /\ rsteps < MaxRSteps
    /\ rerr = OK
    /\ rop \in {"idle", "edit", "deserialize"}
    /\ LET Returned(s) ==
               /\ rsrc' = reg
               /\ reg' = s.region
               /\ rbuf' = s.data
               /\ rerr' = s.err
       IN Returned(Region_serialize(reg))
    /\ rdec' = (rop = "deserialize")
    /\ rop' = "serialize"
    /\ rsteps' = rsteps + 1
    /\ UNCHANGED <<nbtVars, spanVars>>

\* r = Region(region_data=data) on the bytes of the last serialize
RegionDeserialize ==
    /\ rsteps < MaxRSteps
    /\ rerr = OK
    /\ rop = "serialize"
    /\ LET Returned(d) ==
               /\ reg' = IF d.err = OK THEN d.region ELSE reg
               /\ rerr' = d.err
       IN Returned(Region_init(rbuf))
    /\ rop' = "deserialize"
    /\ rsteps' = rsteps + 1
    /\ UNCHANGED <<rbuf, rsrc, rdec, nbtVars, spanVars>>

\* r = Region(region_data=None) after a serialize: a new object without
\* chunks
RegionNew ==
    /\ rsteps < MaxRSteps
    /\ rerr = OK
    /\ rop = "serialize"
    /\ reg' = EmptyRegion
    /\ rop' = "new"
    /\ rsteps' = rsteps + 1
    /\ UNCHANGED <<rbuf, rsrc, rerr, rdec, nbtVars, spanVars>>

\* the lengths to which the bytes of the last serialize are cut: the two
\* tables alone, all but the last sector, all of them
Cuts == {2 * SECTOR, Len(rbuf) - SECTOR, Len(rbuf)}

\* r.deserialize(data[:n]) on the new object
RegionDeserializeInto(n) ==
    /\ rsteps < MaxRSteps
    /\ rop = "new"
    /\ LET Returned(d) ==
               /\ reg' = d.region
               /\ rerr' = d.err
       IN Returned(Region_deserialize(reg, SubSeq(rbuf, 1, n)))
    /\ rop' = "into"
    /\ rsteps' = rsteps + 1
    /\ UNCHANGED <<rbuf, rsrc, rdec, nbtVars, spanVars>>

NextRegion ==
    \/ \E c \in EditCells, m \in Pads, comp \in {GZIP, ZLIB} :
          SetChunk(c, m, comp)
    \/ \E c \in EditCells, ts \in Stamps : SetTimestamp(c, ts)
    \/ RegionLoad
    \/ RegionSerialize
    \/ RegionDeserialize
    \/ RegionNew
    \/ \E n \in Cuts : RegionDeserializeInto(n)

SpecRegion == InitRegion /\ [][NextRegion]_vars

(***************************************************************************)
(* The sector accounting of Region.serialize.  A chunk of 255 sectors is   *)
(* a megabyte of data; here a chunk stands for len(serialized_chunk_data), *)
(* the length of its compressed data, which is all that the offsets, the   *)
(* spans and the directory entries depend on.                              *)
(***************************************************************************)
\* the lengths of the compressed data: frames of 1 sector, of 255 sectors
\* and of more
Lengths ==
    {1, SECTOR - 5, SECTOR - 4, 255 * SECTOR - 5, 255 * SECTOR - 4,
     256 * SECTOR - 5, 300 * SECTOR}

\* SpanLoop that advances next_offset by the bytes of the chunk, not by its
\* sectors
RECURSIVE SpanLoop_ByteOffsets(_, _, _, _, _)
SpanLoop_ByteOffsets(lens, occ, i, next_offset, acc) ==
    IF i > Len(occ) THEN acc
    ELSE SpanLoop_ByteOffsets(lens, occ, i + 1,
                  next_offset + 5 + lens[occ[i]],
                  Append(acc, [c |-> occ[i], offset |-> next_offset,
                               span |-> chunk_span(5 + lens[occ[i]])]))

\* chunk_sectors_offset and chunk_sectors_spanned after the first loop of
\* Region.serialize over the occupied cells occ, for compressed data of
\* lens[c] bytes in cell c
RECURSIVE SpanLoop(_, _, _, _, _)
SpanLoop(lens, occ, i, next_offset, acc) ==
    IF i > Len(occ) THEN acc
    ELSE SpanLoop(lens, occ, i + 1,
                  next_offset + chunk_span(5 + lens[occ[i]]),
                  Append(acc, [c |-> occ[i], offset |-> next_offset,
                               span |-> chunk_span(5 + lens[occ[i]])]))

\* the second loop of Region.serialize on the offsets and spans of the
\* first: the exception it raises, or the entries it writes
Region_spans(lens) ==
    LET Written(cells, bad) ==
            IF bad # {} THEN
                [err |-> MetadataError(EmptyRegion, cells,
                            CHOOSE c \in bad : \A d \in bad : c <= d),
                 cells |-> <<>>]
            ELSE [err |-> OK, cells |-> cells]
        Spanned(cells) ==
            Written(cells,
                    {c \in DOMAIN lens :
                        MetadataError(EmptyRegion, cells, c) # OK})
    IN Spanned(SpanLoop(lens, CellOrder(DOMAIN lens), 1, 2, <<>>))

\* r.chunks[z][x] = a chunk whose compressed data is n bytes long
SetLength(c, n) ==
    /\ rsteps < MaxEdits
    /\ rop \in {"idle", "edit"}
    /\ clens' = Put(clens, c, n)
    /\ rop' = "edit"
    /\ rsteps' = rsteps + 1
    /\ UNCHANGED <<reg, rbuf, rsrc, rerr, rdec, cdir, cerr, nbtVars>>

\* r.serialize(), as far as the directory
SerializeSpans ==
    /\ rsteps < MaxRSteps
    /\ rop \in {"idle", "edit"}
    /\ LET Returned(s) ==
               /\ cdir' = s.cells
               /\ cerr' = s.err
       IN Returned(Region_spans(clens))
    /\ rop' = "spans"
    /\ rsteps' = rsteps + 1
    /\ UNCHANGED <<reg, rbuf, rsrc, rerr, rdec, clens, nbtVars>>

NextSpans ==
    \/ \E c \in EditCells, n \in Lengths : SetLength(c, n)
    \/ SerializeSpans

SpecSpans == InitRegion /\ [][NextSpans]_vars

(***************************************************************************)
(* Operations on input that nbt.serialize did not write: a serialized      *)
(* document cut short, or with a kind byte overwritten                     *)
(***************************************************************************)
\* the kind bytes written over a kind byte: none is a key of TAG_TYPES
BadKinds == {13, 255}

\* the positions in the serialization of the elements elems from i on, the
\* first of them at offset, of the bytes the decoder reads as a kind: the
\* kind byte of a top-level tag and of a child of a Compound, and the
\* element-kind byte of a List (the elements of a List have no kind byte;
\* an End element is made without a byte being read)
RECURSIVE KindBytes(_, _, _, _)
KindBytes(elems, i, offset, inList) ==
    IF i > Len(elems) THEN {}
    ELSE IF ~IsTag(elems[i]) THEN {}
    ELSE LET t == elems[i]
             head == (IF t.tagged THEN 1 ELSE 0)
                     + (IF t.named /\ t.tid # 0
                        THEN 2 + Len(Utf8Encode(t.name)) ELSE 0)
             Sized(n) ==
                 (IF ~inList THEN {offset + 1} ELSE {})
                 \cup (IF t.tid = 9 THEN {offset + head + 1} ELSE {})
                 \cup (IF t.tid = 9 THEN
                           KindBytes(t.payload.v, 1, offset + head + 5, TRUE)
                       ELSE IF t.tid = 10 THEN
                           KindBytes(t.payload.v, 1, offset + head, FALSE)
                       ELSE {})
                 \cup KindBytes(elems, i + 1, offset + n, inList)
         IN Sized(Len(Tag_serialize(t).data))

\* a document as the decoder returns it, built through the constructors
InitDecode ==
    /\ \E shape \in Shapes, k \in TAGS, nm \in Names, namedArg \in NamedArgs,
          tagged \in BOOLEAN, v \in 0..MaxVal :
          /\ tree = Doc(shape, k, nm, namedArg, tagged, v)
          /\ WellFramed(tree)
    /\ buf = <<>>
    /\ src = <<>>
    /\ inbuf = <<>>
    /\ wfin = FALSE
    /\ op = "init"
    /\ prev = "init"
    /\ err = OK
    /\ steps = 0
    /\ RegionIdle

\* tree = nbt.deserialize(data[:n]) on the first n bytes of the last
\* serialize
DeserializeTruncated(n) ==
    /\ steps < MaxSteps
    /\ err = OK
    /\ op = "serialize"
    /\ LET Returned(r) ==
               /\ tree' = IF r.err = OK THEN r.tree ELSE <<>>
               /\ err' = r.err
       IN Returned(deserialize(SubSeq(buf, 1, n)))
    /\ inbuf' = SubSeq(buf, 1, n)
    /\ wfin' = FALSE
    /\ op' = "truncated"
    /\ prev' = op
    /\ steps' = steps + 1
    /\ UNCHANGED <<buf, src, regionVars>>

\* tree = nbt.deserialize(data) on the bytes of the last serialize with the
\* kind byte at position i overwritten with b
DeserializeUnknownKind(i, b) ==
    /\ steps < MaxSteps
    /\ err = OK
    /\ op = "serialize"
    /\ LET Returned(r) ==
               /\ tree' = IF r.err = OK THEN r.tree ELSE <<>>
               /\ err' = r.err
       IN Returned(deserialize([buf EXCEPT ![i] = b]))
    /\ inbuf' = [buf EXCEPT ![i] = b]
    /\ wfin' = FALSE
    /\ op' = "unknown"
    /\ prev' = op
    /\ steps' = steps + 1
    /\ UNCHANGED <<buf, src, regionVars>>

\* tree[0].deserialize(data[:n]): the first n bytes of the last serialize
\* are decoded into the tag object that was serialized
TagDeserializeTruncated(n) ==
    /\ steps < MaxSteps
    /\ err = OK
    /\ op = "serialize"
    /\ LET Returned(r) ==
               /\ tree' = [tree EXCEPT ![1] = r.tag]
               /\ err' = r.err
       IN Returned(Tag_deserialize(tree[1], SubSeq(buf, 1, n)))
    /\ inbuf' = SubSeq(buf, 1, n)
    /\ wfin' = FALSE
    /\ op' = "tag_deserialize"
    /\ prev' = op
    /\ steps' = steps + 1
    /\ UNCHANGED <<buf, src, regionVars>>

NextDecode ==
    \/ Serialize
    \/ \E n \in 0..(Len(buf) - 1) : DeserializeTruncated(n)
    \/ \E n \in 0..(Len(buf) - 1) : TagDeserializeTruncated(n)
    \/ \E i \in KindBytes(src, 1, 0, FALSE), b \in BadKinds :
          DeserializeUnknownKind(i, b)

SpecDecode == InitDecode /\ [][NextDecode]_vars

(***************************************************************************)
(* Properties of the NBT codec                                             *)
(***************************************************************************)
IsPrefix(a, b) == Len(a) <= Len(b) /\ SubSeq(b, 1, Len(a)) = a

\* the kind byte (if tagged) and the name (if named) that Tag.serialize
\* writes before the payload
TagHead(t) == serialize_tid(t) \o serialize_name(t).data

\* the number of bytes that Tag.serialize writes before the payload
HeadLenOf(t) == Len(TagHead(t))

\* C1: for every well-formed byte sequence B that nbt.serialize produced,
\* nbt.deserialize(B) succeeds and nbt.serialize of the result is B again,
\* byte for byte.
C1_DecodeEncodeRoundTrip ==
    /\ (op = "deserialize" /\ wfin) => err = OK
    /\ (op = "serialize" /\ prev = "deserialize" /\ wfin) =>
          (err = OK /\ buf = inbuf)

\* a nested document (a Compound holding a List of Compounds) has been
\* decoded and serialized again
C1_Witness ==
    /\ op = "serialize" /\ prev = "deserialize" /\ wfin /\ err = OK
    /\ buf = inbuf
    /\ tree[1].tid = 10
    /\ tree[1].payload.v[1].tid = 9
    /\ tree[1].payload.v[1].payload.v # <<>>

NameOrEmpty(n) == IF n = None THEN <<>> ELSE n

\* a constructed tag a and a decoded tag b agree in kind, name, payload,
\* element kind and child order (an unnamed tag has the name "")
RECURSIVE SameTag(_, _)
SameTag(a, b) ==
    /\ IsTag(a) = IsTag(b)
    /\ IF ~IsTag(a) THEN a = b
       ELSE /\ a.tid = b.tid
            /\ a.tid # 0 => NameOrEmpty(a.name) = NameOrEmpty(b.name)
            /\ IF a.tid \in {9, 10} THEN
                   /\ a.payload.py = b.payload.py
                   /\ a.tid = 9 =>
                        b.tagID = (IF a.tagID # NoTagID THEN a.tagID
                                   ELSE a.payload.v[1].tid)
                   /\ Len(a.payload.v) = Len(b.payload.v)
                   /\ \A i \in 1..Len(a.payload.v) :
                        SameTag(a.payload.v[i], b.payload.v[i])
               ELSE a.tid # 0 => a.payload = b.payload

SameDoc(a, b) ==
    /\ Len(a) = Len(b)
    /\ \A i \in 1..Len(a) : SameTag(a[i], b[i])

\* C2: for every document T built through the constructors that
\* nbt.serialize encodes, nbt.deserialize of the bytes succeeds and gives a
\* document equal to T in kinds, names, payloads, element kinds and order.
C2_EncodeDecodeIdentity ==
    (op = "deserialize" /\ steps = 2) => (err = OK /\ SameDoc(src, tree))

\* the offset in inbuf of the top-level tag i of the decoded document
RECURSIVE StartOf(_)
StartOf(i) == IF i = 1 THEN 0 ELSE StartOf(i - 1) + tree[i - 1].size

\* C8: a List decoded with count 0 has the element-kind byte of the input
\* as its tagID, and a List with an empty payload and a tagID (emptied after
\* decoding, or built so) serializes its payload as that kind byte and four
\* zero bytes: 08 00 00 00 00 for the element kind String.
C8_EmptyListKind ==
    /\ (op = "deserialize" /\ err = OK) =>
          \A i \in 1..Len(tree) :
             tree[i].tid = 9 =>
                LET at == StartOf(i) + 3 + Len(Utf8Encode(tree[i].name))
                    count == Unpack_I(SubSeq(inbuf, at + 2, at + 5))
                IN count = 0 =>
                      (tree[i].tagID = inbuf[at + 1] /\ tree[i].payload.v = <<>>)
    /\ (op = "serialize" /\ err = OK /\ src[1].tid = 9
          /\ src[1].payload = PyList(<<>>) /\ src[1].tagID # NoTagID) =>
          /\ IsPrefix(TagHead(src[1]) \o <<src[1].tagID, 0, 0, 0, 0>>, buf)
          /\ src[1].tagID = 8 =>
                SubSeq(buf, Len(TagHead(src[1])) + 1, Len(TagHead(src[1])) + 5)
                   = <<8, 0, 0, 0, 0>>

\* a List of three Bytes was decoded, emptied and serialized
C8_Witness ==
    /\ op = "serialize" /\ prev = "empty" /\ err = OK
    /\ src[1].tid = 9 /\ src[1].tagID = 1 /\ src[1].payload.v = <<>>
    /\ Len(inbuf) = Len(buf) + 3

IsEnd(x) == IsTag(x) /\ x.tid = 0

\* every Compound in and under t holds exactly one End, as its last child
RECURSIVE OneEndLast(_)
OneEndLast(t) ==
    IF ~IsTag(t) \/ t.tid \notin {9, 10} \/ t.payload.py # "list" THEN TRUE
    ELSE /\ t.tid = 10 =>
              /\ t.payload.v # <<>>
              /\ \A i \in 1..Len(t.payload.v) :
                    IsEnd(t.payload.v[i]) = (i = Len(t.payload.v))
         /\ \A i \in 1..Len(t.payload.v) : OneEndLast(t.payload.v[i])

\* every Compound in and under t has an End as its last child
RECURSIVE EndsWithEnd(_)
EndsWithEnd(t) ==
    IF ~IsTag(t) \/ t.tid \notin {9, 10} \/ t.payload.py # "list" THEN TRUE
    ELSE /\ t.tid = 10 =>
              (t.payload.v # <<>> /\ IsEnd(t.payload.v[Len(t.payload.v)]))
         /\ \A i \in 1..Len(t.payload.v) : EndsWithEnd(t.payload.v[i])

RECURSIVE ElementPayloads(_, _, _)
ElementPayloads(kind, elems, i) ==
    IF i > Len(elems) THEN <<>>
    ELSE (IF is_primitive(kind) THEN serialize_primitive(kind, elems[i]).data
          ELSE serialize_payload(elems[i]).data)
         \o ElementPayloads(kind, elems, i + 1)

\* C10: for every List that serialize() encodes (here the first top-level
\* tag, of an element kind other than End), the payload is the element kind
\* byte, the u32 count n, then n element payloads without kind byte and
\* without name, also when the elements were built through the constructor.
C10_ListElementFraming ==
    (op = "serialize" /\ err = OK /\ tree[1].tid = 9 /\ tree[1].tagID # 0) =>
        IsPrefix(TagHead(tree[1])
                   \o <<tree[1].tagID>>
                   \o UnsignedToBytes(Len(tree[1].payload.v), 4)
                   \o ElementPayloads(tree[1].tagID, tree[1].payload.v, 1),
                 buf)

\* x is an integer in [-2^(8w-1), 2^(8w-1) - 1]: an integer of at most 32
\* bits is in the range of 4 and of 8 bytes, a longer one is in no range
\* but that of 8 bytes, and in that when it has at most 64 bits
InRange(x, w) ==
    IF x.py = "int" THEN
        w >= 4 \/ (x.v >= -(2 ^ (8 * w - 1)) /\ x.v <= 2 ^ (8 * w - 1) - 1)
    ELSE IF x.py = "bigint" THEN w = 8 /\ Len(x.v) <= 8
    ELSE FALSE

\* C16: for Byte, Short, Int and Long tags of width w bytes, serialize() and
\* validate() succeed exactly when the payload is an integer in
\* [-2^(8w-1), 2^(8w-1) - 1] and fail with an error for an integer outside
\* it; no value out of range is wrapped or truncated into the output.
C16_IntegerRange ==
    /\ (op = "validate" /\ IsTagInt(tree[1].tid)) =>
          (err = OK <=> InRange(tree[1].payload, width(tree[1].tid)))
    /\ (op = "serialize" /\ Len(src) = 1 /\ IsTagInt(src[1].tid)) =>
          /\ err = OK <=> InRange(src[1].payload, width(src[1].tid))
          /\ err = OK =>
                /\ Len(buf) = HeadLenOf(src[1]) + width(src[1].tid)
                /\ PyIntFromBytes(SubSeq(buf, HeadLenOf(src[1]) + 1, Len(buf)))
                      = src[1].payload

\* a Byte was assigned 128 and serialize() raised OverflowError
C16_Witness ==
    /\ op = "serialize" /\ prev = "assign"
    /\ Len(src) = 1 /\ src[1].tid = 1 /\ src[1].payload = PyInt(128)
    /\ err = "OverflowError"
    /\ buf = <<>>

(***************************************************************************)
(* Properties of the decoder on malformed input                            *)
(***************************************************************************)
\* C11: decoding a tag whose fixed-width payload (Byte, Short, Int, Long,
\* also as a List element) has fewer bytes left in the input than its width
\* fails with an error instead of returning a tag.
C11_TruncatedScalar ==
    (op = "truncated" /\ Len(src) = 1) =>
        /\ (IsTagInt(src[1].tid)
              /\ Len(inbuf) >= Len(buf) - width(src[1].tid)) => err # OK
        /\ (src[1].tid = 9 /\ IsTagInt(src[1].tagID)
              /\ src[1].payload.v # <<>>
              /\ Len(inbuf) >= HeadLenOf(src[1]) + 5) => err # OK

\* the number of bytes of the count of t and, for a List, its element kind
CountLen(t) == IF t.tid = 9 THEN 5 ELSE 4

\* C12: decoding a List, ByteArray, IntArray or LongArray whose declared
\* count needs more bytes than remain in the input fails with an error; it
\* never returns a sequence shorter than the declared count or one filled
\* with values that were not in the input.
C12_CountOverrun ==
    (op = "truncated" /\ Len(src) = 1 /\ src[1].tid \in {7, 9, 11, 12}
       /\ src[1].payload.v # <<>>
       /\ Len(inbuf) >= HeadLenOf(src[1]) + CountLen(src[1])) => err # OK

\* the serialized document src holds a Compound (at the top level, or under
\* its single top-level tag) whose End byte comes after the first n bytes
RECURSIVE CompoundAfter(_, _, _, _)
CompoundAfter(elems, i, offset, n) ==
    IF i > Len(elems) THEN FALSE
    ELSE IF ~IsTag(elems[i]) THEN FALSE
    ELSE LET t == elems[i]
             Sized(head, size) ==
                 \/ t.tid = 10 /\ offset + head <= n /\ offset + size > n
                 \/ t.tid = 10 /\ CompoundAfter(t.payload.v, 1, offset + head, n)
                 \/ t.tid = 9 /\ CompoundAfter(t.payload.v, 1, offset + head + 5, n)
                 \/ CompoundAfter(elems, i + 1, offset + size, n)
         IN Sized(HeadLenOf(t), Len(Tag_serialize(t).data))

\* C13: decoding a Compound whose children run to the end of the input
\* without an End byte fails with an error; nbt.deserialize never returns a
\* Compound that lacks its End terminator.
C13_UnterminatedCompound ==
    /\ (op = "truncated" /\ CompoundAfter(src, 1, 0, Len(inbuf))) => err # OK
    /\ (op \in {"truncated", "unknown"} /\ err = OK) =>
          \A i \in 1..Len(tree) : OneEndLast(tree[i])

\* a Compound with a Byte child was cut before its End byte, and decoding
\* it raised IndexError where the End byte was looked for
C13_Witness ==
    /\ op = "truncated"
    /\ Len(src) = 1 /\ src[1].tid = 10 /\ Len(src[1].payload.v) = 2
    /\ src[1].payload.v[1].tid = 1
    /\ Len(inbuf) = Len(buf) - 1
    /\ err = "IndexError"

\* C14: a kind byte outside 0x00..0x0C makes decoding fail with an error
\* wherever a kind is read: at the top level, as a Compound child, and as
\* the element-kind byte of a List (also when the count of the List is 0).
C14_UnknownKind ==
    op = "unknown" =>
        /\ \E i \in KindBytes(src, 1, 0, FALSE) :
              /\ inbuf[i] \notin TAGS
              /\ inbuf = [buf EXCEPT ![i] = inbuf[i]]
        /\ err # OK

\* the element-kind byte of a List of count 0 was overwritten with 13, and
\* decoding raised KeyError
C14_Witness ==
    /\ op = "unknown"
    /\ Len(src) = 1 /\ src[1].tid = 9 /\ src[1].payload.v = <<>>
    /\ inbuf[HeadLenOf(src[1]) + 1] = 13
    /\ inbuf[1] = 9
    /\ err = "KeyError"

\* a before serialize() and b after it differ in nothing but a None name of
\* a named tag that became "" and a None tagID of a non-empty List that
\* became the kind of its first element
RECURSIVE OnlyRecovered(_, _)
OnlyRecovered(a, b) ==
    /\ b.tid = a.tid /\ b.tagged = a.tagged /\ b.named = a.named
    /\ b.size = a.size
    /\ \/ b.name = a.name
       \/ a.named /\ a.name = None /\ b.name = <<>>
    /\ \/ b.tagID = a.tagID
       \/ /\ a.tid = 9 /\ a.tagID = NoTagID
          /\ a.payload.py = "list" /\ a.payload.v # <<>>
          /\ b.tagID = a.payload.v[1].tid
    /\ b.payload.py = a.payload.py
    /\ IF a.tid \in {9, 10} /\ a.payload.py = "list" THEN
           /\ Len(b.payload.v) = Len(a.payload.v)
           /\ \A i \in 1..Len(a.payload.v) :
                IF IsTag(a.payload.v[i]) THEN
                    /\ IsTag(b.payload.v[i])
                    /\ OnlyRecovered(a.payload.v[i], b.payload.v[i])
                ELSE b.payload.v[i] = a.payload.v[i]
       ELSE b.payload = a.payload

\* no named tag in t has the name None, no non-empty List in t the tagID
\* None
RECURSIVE AllRecovered(_)
AllRecovered(t) ==
    /\ t.named => t.name # None
    /\ (t.tid = 9 /\ t.payload.v # <<>>) => t.tagID # NoTagID
    /\ t.tid \in {9, 10} =>
         \A i \in 1..Len(t.payload.v) :
             IsTag(t.payload.v[i]) => AllRecovered(t.payload.v[i])

\* C18 as it is written: serialize() leaves the name, payload, tagID and
\* the tagged/named flags of every tag of the tree exactly as they were
\* before the call.
C18_SerializeLeavesTree ==
    op = "serialize" => tree = src

\* C18: serialize() leaves the payload and the tagged/named flags of every
\* tag of the tree as they were; the only attributes it changes are the
\* None name of a named tag, which becomes "", and the None tagID of a
\* non-empty List, which becomes the kind of its first element; after a
\* serialize() that returns, no named tag has the name None and no
\* non-empty List the tagID None.
C18_SerializeRecoversOnly ==
    op = "serialize" =>
        /\ Len(tree) = Len(src)
        /\ \A i \in 1..Len(src) : OnlyRecovered(src[i], tree[i])
        /\ err = OK => \A i \in 1..Len(tree) : AllRecovered(tree[i])

C18_Witness ==
    /\ op = "serialize" /\ err = OK /\ prev = "rename"
    /\ src[1].tid = 9 /\ src[1].named
    /\ src[1].name = None /\ src[1].tagID = NoTagID
    /\ tree[1].name = <<>> /\ tree[1].tagID \in TAGS
    /\ tree[1].payload = src[1].payload

\* the last serialize returned what r holds, or raised what r raised
SerializedAs(r) ==
    /\ err = r.err
    /\ err = OK => buf = r.data

\* C19: a tag constructed with neither name nor named is unnamed, serializes
\* to the bytes of the same tag built with named=False and has the name
\* None before and after serialize(); a named tag whose name is None, at
\* construction or set later, serializes to the bytes of the one whose name
\* is "" and has the name "" after serialize(); a non-empty name is
\* unchanged by serialize(); a tag built from nbt_data without the named
\* argument is named.
C19_NameOptionality ==
    /\ (op = "serialize" /\ Len(src) = 1 /\ src[1].tid # 0) =>
         LET a == src[1]
             Bare == Tag_init(a.tid, None, a.payload, "None", a.tagged, a.tagID)
             Unnamed == Tag_init(a.tid, None, a.payload, "False", a.tagged, a.tagID)
             NamedNone == Tag_init(a.tid, None, a.payload, "True", a.tagged, a.tagID)
             NamedEmpty == Tag_init(a.tid, <<>>, a.payload, "True", a.tagged, a.tagID)
         IN /\ ~Bare.named /\ Bare.name = None
            /\ a = Bare =>
                 /\ SerializedAs(Tag_serialize(Unnamed))
                 /\ tree[1].name = None
            /\ NamedNone.named /\ NamedNone.name = <<>>
            /\ a = NamedNone =>
                 /\ SerializedAs(Tag_serialize(NamedEmpty))
                 /\ tree[1].name = <<>>
            /\ (a.named /\ a.name = None) =>
                 /\ SerializedAs(Tag_serialize(NamedEmpty))
                 /\ tree[1].name = <<>>
            /\ a.name \notin {None, <<>>} => tree[1].name = a.name
    /\ (op = "deserialize" /\ err = OK) =>
         \A i \in 1..Len(tree) :
             /\ tree[i].tid # 0 => tree[i].named
             /\ tree[i].tid = 10 =>
                  \A j \in 1..Len(tree[i].payload.v) :
                      tree[i].payload.v[j].tid # 0 => tree[i].payload.v[j].named

C19_Witness ==
    /\ op = "serialize" /\ err = OK /\ prev = "rename"
    /\ Len(src) = 1 /\ IsTagInt(src[1].tid)
    /\ src[1].named /\ src[1].name = None
    /\ tree[1].name = <<>>
    /\ buf = <<src[1].tid, 0, 0>> \o SubSeq(buf, 4, Len(buf))
    /\ Len(buf) = 3 + width(src[1].tid)

\* the number of bytes of the UTF-8 form of the code points s
RECURSIVE Utf8Length(_)
Utf8Length(s) ==
    IF s = <<>> THEN 0
    ELSE (IF s[1] < 128 THEN 1 ELSE IF s[1] < 2048 THEN 2
          ELSE IF s[1] < 65536 THEN 3 ELSE 4) + Utf8Length(Tail(s))

\* the sum of the _size of the first i tags of a document: where the
\* i-th ends in the buffer it was decoded from
RECURSIVE SizesUpTo(_, _)
SizesUpTo(doc, i) ==
    IF i = 0 THEN 0 ELSE SizesUpTo(doc, i - 1) + doc[i].size

\* the _size of t and of every tag in t is the length of its own
\* serialization
RECURSIVE SizeIsOwnLength(_)
SizeIsOwnLength(t) ==
    /\ LET Measured(r) == r.err = OK /\ t.size = Len(r.data)
       IN Measured(Tag_serialize(t))
    /\ t.tid \in {9, 10} =>
         \A i \in 1..Len(t.payload.v) :
             IsTag(t.payload.v[i]) => SizeIsOwnLength(t.payload.v[i])

\* C20: the length of tag.serialize() of a Byte, Short, Int or Long is
\* (1 if tagged else 0) + (2 + UTF-8 length of the name if named else 0)
\* + 1, 2, 4 or 8, and a tag decoded from a buffer that fully contains it
\* reports a _size equal to the length of its own serialization.
C20_SizeAccounting ==
    /\ (op = "serialize" /\ err = OK /\ Len(src) = 1 /\ IsTagInt(src[1].tid)) =>
         Len(buf) = (IF src[1].tagged THEN 1 ELSE 0)
                    + (IF src[1].named THEN 2 + Utf8Length(tree[1].name) ELSE 0)
                    + (CASE src[1].tid = 1 -> 1 [] src[1].tid = 2 -> 2
                         [] src[1].tid = 3 -> 4 [] OTHER -> 8)
    /\ (op = "deserialize" /\ err = OK) =>
         \A i \in 1..Len(tree) :
             SizesUpTo(tree, i) <= Len(inbuf) => SizeIsOwnLength(tree[i])

C20_Witness ==
    /\ op = "deserialize" /\ err = OK
    /\ Len(tree) = 1 /\ tree[1].tid = 10
    /\ tree[1].size = Len(inbuf)
    /\ tree[1].payload.v[1].tid = 4
    /\ tree[1].payload.v[1].name = <<8482, 98>>
    /\ tree[1].payload.v[1].size = 1 + (2 + 4) + 8
    /\ tree[1].size = 1 + 2 + tree[1].payload.v[1].size + 1

\* C21: for a Byte, Short, Int or Long under each framing (tagged or not,
\* named or not) whose payload is in range, any number of successive
\* tag.deserialize(tag.serialize()) calls leave the payload as it was.
C21_InPlaceRedeserialize ==
    (op = "redeserialize" /\ IsTagInt(src[1].tid)
       /\ InRange(src[1].payload, width(src[1].tid))) =>
        /\ err = OK
        /\ tree[1].payload = src[1].payload
        /\ tree[1].tagged = src[1].tagged /\ tree[1].named = src[1].named

C21_Witness ==
    /\ op = "redeserialize" /\ prev = "redeserialize" /\ steps = MaxSteps
    /\ err = OK
    /\ src[1].tid = 2 /\ ~src[1].tagged /\ ~src[1].named
    /\ src[1].payload = PyInt(-32768)
    /\ tree[1].payload = PyInt(-32768)
    /\ inbuf = <<128, 0>>

\* C26: every iteration of the loop of nbt.deserialize consumes at least
\* one byte (every top-level tag, End included, has _size >= 1), so the
\* assertion tag._size >= 1 never fails and the call returns a tree or
\* raises another error.
C26_DecodeLoopAdvances ==
    op \in {"deserialize", "truncated", "unknown"} =>
        /\ err # "AssertionError"
        /\ err = OK =>
             /\ \A i \in 1..Len(tree) : tree[i].size >= 1
             /\ Len(tree) <= Len(inbuf)
             /\ SizesUpTo(tree, Len(tree)) >= Len(inbuf)
             /\ tree # <<>> => SizesUpTo(tree, Len(tree) - 1) < Len(inbuf)

\* the loop ended after a tag that reaches beyond the end of the buffer
C26_Witness ==
    /\ op = "truncated" /\ err = OK
    /\ Len(tree) = 1
    /\ tree[1].size > Len(inbuf)
    /\ Len(inbuf) >= 1

\* x is an element of the kind: a tag instance of that kind, or a primitive
\* value of it
IsOfKind(kind, x) ==
    IF IsTag(x) THEN x.tid = kind
    ELSE CASE IsTagInt(kind) -> x.py \in {"int", "bigint"}
           [] IsTagFloat(kind) -> x.py \in {"float", "floatbits"}
           [] kind = 8 -> x.py = "str"
           [] OTHER -> FALSE

\* every List in t has all its elements of its declared kind
RECURSIVE Homogeneous(_)
Homogeneous(t) ==
    /\ t.tid = 9 =>
         \A i \in 1..Len(t.payload.v) : IsOfKind(t.tagID, t.payload.v[i])
    /\ t.tid \in {9, 10} =>
         \A i \in 1..Len(t.payload.v) :
             IsTag(t.payload.v[i]) => Homogeneous(t.payload.v[i])

\* C27: every List that the decoder returns, and every List that validate()
\* accepts, has all its elements of the declared element kind tagID: a
\* primitive value of that kind, or a tag instance whose tid is tagID.
C27_ListHomogeneity ==
    /\ (op = "deserialize" /\ err = OK) =>
         \A i \in 1..Len(tree) : Homogeneous(tree[i])
    /\ (op = "validate" /\ err = OK /\ tree[1].tid = 9) =>
         \A i \in 1..Len(tree[1].payload.v) :
             IsOfKind(tree[1].tagID, tree[1].payload.v[i])

\* C28: TAG_List.serialize() fails with an AssertionError when the tagID
\* is not set and the payload is an empty list.
C28_EmptyListWithoutKind ==
    (op = "serialize" /\ src[1].tid = 9 /\ src[1].tagID = NoTagID
       /\ src[1].payload = PyList(<<>>)) =>
        err = "AssertionError"

\* C29: the name, payload and _size that Tag.deserialize(data) sets depend
\* on data and on the tagged/named flags of the tag alone, not on the _size
\* or the payload that an earlier deserialize left on the instance: they
\* are those of a new instance with the same flags; a TAG_String
\* deserialized again from the same bytes has the same payload and _size
\* after every call.
C29_DeserializeIndependent ==
    (op = "redeserialize" /\ inbuf # <<>>) =>
        LET SameAs(r) ==
                /\ err = r.err
                /\ err = OK =>
                     /\ tree[1].name = r.tag.name
                     /\ tree[1].payload = r.tag.payload
                     /\ tree[1].size = r.tag.size
        IN SameAs(Tag_deserialize(
                     MkTag(tree[1].tid, None, PyNone, 0, tree[1].tagged,
                           tree[1].named, NoTagID),
                     inbuf))

\* C17: when a decode fails, no partially decoded state can be observed:
\* nbt.deserialize and the Region constructor return nothing, and a failing
\* Tag.deserialize(data) or Region.deserialize(data) on an existing object
\* leaves the name and the payload of the tag, and the chunks, timestamps
\* and compression of the Region, as they were before the call.
C17_NoPartialState ==
    [][/\ (op' \in {"truncated", "unknown"} /\ err' # OK) => tree' = <<>>
       /\ (op' = "tag_deserialize" /\ err' # OK) =>
             /\ tree'[1].name = tree[1].name
             /\ tree'[1].payload = tree[1].payload
       /\ (rop' = "deserialize" /\ rerr' # OK) => reg' = reg
       /\ (rop' = "into" /\ rerr' # OK) =>
             /\ reg'.chunks = reg.chunks
             /\ reg'.timestamps = reg.timestamps
             /\ reg'.compression = reg.compression]_vars

(***************************************************************************)
(* Properties of the Region codec                                          *)
(***************************************************************************)
\* Region.serialize has returned rbuf for the Region rsrc
Serialized == rop = "serialize" /\ rerr = OK

\* the cells of rsrc that hold a chunk
Occupied == DOMAIN rsrc.chunks

\* the directory entry and the timestamp entry of cell c in rbuf
DirOffset(c) == UnsignedFromBytes(SubSeq(rbuf, 4 * c + 1, 4 * c + 3))

DirSpan(c) == rbuf[4 * c + 4]

StampOf(c) == UnsignedFromBytes(SubSeq(rbuf, SECTOR + 4 * c + 1,
                                       SECTOR + 4 * c + 4))

\* the number of compressed bytes of the chunk of cell c of rsrc
CompressedLen(c) ==
    LET nbt_bytes == serialize(rsrc.chunks[c]).data
    IN Len(IF rsrc.compression[c] = ZLIB THEN zlib_compress(nbt_bytes)
           ELSE gzip_compress(nbt_bytes))

\* the least number of sectors that hold n bytes
Ceil(n) == CHOOSE k \in 0..n : k * SECTOR >= n /\ (k - 1) * SECTOR < n

RECURSIVE SumSpans(_)
SumSpans(S) ==
    IF S = {} THEN 0
    ELSE LET c == CHOOSE c \in S : TRUE IN DirSpan(c) + SumSpans(S \ {c})

\* the Region decoded from the bytes of Region.serialize and the Region
\* that was serialized agree on cell c
SameCell(c) ==
    /\ (c \in DOMAIN reg.chunks) = (c \in DOMAIN rsrc.chunks)
    /\ c \in DOMAIN rsrc.chunks =>
          /\ Get(reg.timestamps, c, 0) = Get(rsrc.timestamps, c, 0)
          /\ Get(reg.compression, c, NoCompression)
                = Get(rsrc.compression, c, NoCompression)
          /\ reg.chunks[c] = rsrc.chunks[c]

\* C3: for every Region R decoded from bytes, decoding R.serialize()
\* succeeds and gives a Region with the same occupied cells, the same
\* timestamp and compression in every occupied cell and an equal NBT tree
\* in every occupied cell.
C3_RegionRoundTrip ==
    (rop = "deserialize" /\ rdec) => (rerr = OK /\ \A c \in CELLS : SameCell(c))

\* C4: in the output of Region.serialize the span of every occupied cell is
\* ceil((5 + compressed length) / 4096), the first occupied cell has offset
\* 2 and every later one the offset plus the span of the occupied cell
\* before it; offsets increase strictly and are at least 2.
C4_SectorArithmetic ==
    Serialized =>
        \A c \in Occupied :
            /\ DirSpan(c) = Ceil(5 + CompressedLen(c))
            /\ DirOffset(c) >= 2
            /\ (\A d \in Occupied : c <= d) => DirOffset(c) = 2
            /\ \A d \in Occupied :
                  /\ c < d => DirOffset(c) < DirOffset(d)
                  /\ (c < d /\ \A e \in Occupied : ~(c < e /\ e < d)) =>
                        DirOffset(d) = DirOffset(c) + DirSpan(c)

\* a chunk that fills one sector exactly was given one sector, and the
\* chunk after it starts in sector 3
C4_Witness ==
    /\ Serialized
    /\ \E c, d \in Occupied :
          /\ c < d
          /\ 5 + CompressedLen(c) = SECTOR
          /\ DirOffset(c) = 2 /\ DirSpan(c) = 1
          /\ DirOffset(d) = 3

\* C5: the length of every output of Region.serialize is a multiple of
\* 4096, at least 8192, and (2 + the sum of the spans of the occupied
\* cells) * 4096: 8192 without a chunk, (2 + span) * 4096 with one chunk
\* at cell (0, 0).
C5_RegionSize ==
    Serialized =>
        /\ Len(rbuf) % SECTOR = 0
        /\ Len(rbuf) >= 2 * SECTOR
        /\ Len(rbuf) = (2 + SumSpans(Occupied)) * SECTOR
        /\ Occupied = {} => Len(rbuf) = 2 * SECTOR
        /\ Occupied = {0} => Len(rbuf) = (2 + DirSpan(0)) * SECTOR

\* a Region with one chunk of two sectors at cell (0, 0) was serialized
C5_Witness ==
    /\ Serialized
    /\ Occupied = {0}
    /\ DirSpan(0) = 2
    /\ Len(rbuf) = 4 * SECTOR

\* C6: in every chunk frame that Region.serialize writes, the u32 length
\* field is the number of bytes after it: 1 + the number of compressed
\* bytes.
C6_FrameLength ==
    Serialized =>
        \A c \in Occupied :
            UnsignedFromBytes(SubSeq(rbuf, SECTOR * DirOffset(c) + 1,
                                     SECTOR * DirOffset(c) + 4))
               = 1 + CompressedLen(c)

\* C7: for every cell without a chunk, the output of Region.serialize has
\* a directory entry of four zero bytes and a timestamp entry of 0, and no
\* frame, whatever the timestamps table holds for the cell.
C7_AbsentCells ==
    Serialized =>
        /\ \A c \in CELLS \ Occupied :
              /\ SubSeq(rbuf, 4 * c + 1, 4 * c + 4) = <<0, 0, 0, 0>>
              /\ StampOf(c) = 0
        /\ Len(rbuf) = (2 + SumSpans(Occupied)) * SECTOR

\* the last Region.serialize returned what s holds, or raised what s raised
RegionSerializedAs(s) ==
    /\ rerr = s.err
    /\ rerr = OK => rbuf = s.data

CompressedOf(c) ==
    LET nbt_bytes == serialize(rsrc.chunks[c]).data
    IN IF rsrc.compression[c] = ZLIB THEN zlib_compress(nbt_bytes)
       ELSE gzip_compress(nbt_bytes)

\* the length field N of the frame of cell c in rbuf
FrameLength(c) ==
    UnsignedFromBytes(SubSeq(rbuf, SECTOR * DirOffset(c) + 1,
                             SECTOR * DirOffset(c) + 4))

\* C23: for an occupied cell whose frame starts at byte 4096 * offset with
\* the length field N, deserialize_chunk hands exactly the N - 1 bytes after
\* the compression byte to the decompressor; when the output of
\* Region.serialize is decoded these are exactly the compressed bytes the
\* encoder wrote for the cell, without padding and without bytes of the
\* next frame.
C23_FrameRead ==
    (rop = "deserialize" /\ rbuf # <<>>) =>
        \A c \in Occupied :
            LET Handed(d) ==
                    d.err = OK =>
                        /\ d.handed = SubSeq(rbuf, SECTOR * DirOffset(c) + 6,
                                             SECTOR * DirOffset(c) + 4
                                                + FrameLength(c))
                        /\ d.handed = CompressedOf(c)
            IN Handed(deserialize_chunk(EmptyRegion, rbuf, c))

\* C24: for every occupied cell in the output of Region.serialize, the
\* 4-byte length field and the N bytes it declares fit in the sectors of the
\* cell: 4 + N <= span * 4096, for every compressed length, those where
\* 5 + the compressed length is a multiple of 4096 or up to 4 bytes below
\* one included.
C24_FrameInsideAllocation ==
    Serialized =>
        \A c \in Occupied : 4 + FrameLength(c) <= DirSpan(c) * SECTOR

\* the bytes of the sectors that the directory of rbuf gives to cell c
SectorsOf(c) ==
    SubSeq(rbuf, SECTOR * DirOffset(c) + 1,
           SECTOR * (DirOffset(c) + DirSpan(c)))

\* C25: in the output of Region.serialize the bytes [4096 * offset,
\* 4096 * (offset + span)) of every occupied cell with the directory entry
\* (offset, span) are the frame of that cell: a length field, its
\* compression byte, its compressed bytes, then zero padding; the ranges of
\* distinct occupied cells are disjoint, ascend in the z-major order of the
\* cells, and none overlaps the sectors 0 and 1.
C25_DirectoryFrames ==
    Serialized =>
        \A c \in Occupied :
            /\ DirOffset(c) >= 2
            /\ DirSpan(c) >= 1
            /\ SECTOR * (DirOffset(c) + DirSpan(c)) <= Len(rbuf)
            /\ Len(SectorsOf(c)) = SECTOR * DirSpan(c)
            /\ SectorsOf(c)[5] = rsrc.compression[c]
            /\ SubSeq(SectorsOf(c), 6, 5 + CompressedLen(c)) = CompressedOf(c)
            /\ SubSeq(SectorsOf(c), 6 + CompressedLen(c), SECTOR * DirSpan(c))
                  = Zeros(SECTOR * DirSpan(c) - 5 - CompressedLen(c))
            /\ \A d \in Occupied :
                  c < d => DirOffset(c) + DirSpan(c) <= DirOffset(d)

\* two chunks of different lengths were serialized, the first one over two
\* sectors
C25_Witness ==
    /\ Serialized
    /\ \E c, d \in Occupied :
          /\ c < d
          /\ DirOffset(c) = 2 /\ DirSpan(c) = 2
          /\ DirOffset(d) = 4 /\ DirSpan(d) = 1
          /\ CompressedOf(c) # CompressedOf(d)
          /\ Len(rbuf) = 5 * SECTOR

\* C15: Region.serialize fails with an error and returns no bytes when the
\* span ceil((5 + compressed length) / 4096) of an occupied cell exceeds
\* 255; hence every span of an occupied cell in an output it returns is
\* between 1 and 255.
C15_ChunkTooLarge ==
    rop = "spans" =>
        /\ (\E c \in DOMAIN clens : Ceil(5 + clens[c]) > 255) =>
              (cerr # OK /\ cdir = <<>>)
        /\ cerr = OK =>
              /\ Len(cdir) = Cardinality(DOMAIN clens)
              /\ \A i \in 1..Len(cdir) : cdir[i].span \in 1..255

\* a chunk of 256 sectors after a chunk of 255 sectors made the directory
\* loop raise
C15_Witness ==
    /\ rop = "spans"
    /\ DOMAIN clens = {0, 1}
    /\ clens[0] = 255 * SECTOR - 5
    /\ clens[1] = 255 * SECTOR - 4
    /\ cerr = "struct.error"
    /\ cdir = <<>>

\* C30: in Region.serialize, whenever the span of every occupied cell is at
\* most 255, every sector offset given to a cell is at most 2 + 255 for
\* each occupied cell before it, so at most 2 + 1023 * 255 and below 2^24:
\* writing it as a 3-byte unsigned integer does not overflow, and the only
\* failure of the sector arithmetic is a span above 255.
C30_OffsetFits ==
    rop = "spans" =>
        /\ (\A c \in DOMAIN clens : Ceil(5 + clens[c]) <= 255) =>
              /\ cerr = OK
              /\ \A i \in 1..Len(cdir) :
                    /\ cdir[i].offset <= 2 + (i - 1) * 255
                    /\ cdir[i].offset <= 2 + 1023 * 255
                    /\ cdir[i].offset < 16777216
        /\ cerr # OK =>
              /\ cerr = "struct.error"
              /\ \E c \in DOMAIN clens : Ceil(5 + clens[c]) > 255

\* the second of two chunks of 255 sectors was given the offset 2 + 255
C30_Witness ==
    /\ rop = "spans" /\ cerr = OK
    /\ Len(cdir) = 2
    /\ cdir[1].span = 255 /\ cdir[1].offset = 2
    /\ cdir[2].span = 255 /\ cdir[2].offset = 2 + 255

====
